---- MODULE Spec2Model ----
(***************************************************************************)
(* Superloop RLMS worker (scripts/rlms_worker.py): the bounded REPL        *)
(* controller of main(), the ExecutionState ledger, the sandbox helpers    *)
(* and the result records written to standard output.                      *)
(*                                                                         *)
(* A root response is a fragment: a sequence of statements.  Each          *)
(* statement is a record [op, arg]; NodeTypes gives the ast node types it  *)
(* parses to and CallNames the plain names it calls, which is what         *)
(* _validate_ast inspects.  Time is a discrete clock counted in ticks      *)
(* (TicksPerSecond ticks per second) that child processes advance: a child *)
(* returns at once or after MaxChildTicks ticks, and a while loop of a     *)
(* fragment advances it too.  The root model emits at most MaxStmts        *)
(* statements over a run.                                                  *)
(*                                                                         *)
(* Spec is the whole run from the command line.  SandboxSpec starts in the *)
(* first fragment with highlight and citation lists already filled and     *)
(* draws the raw arguments of the helpers; LedgerSpec starts part-way      *)
(* through a run with the ledger at the edges of its budgets.              *)
(* NamespaceSpec is a run of two steps whose fragments bind names, define  *)
(* and call functions, store into CONTEXT and use attributes (RichStmts);  *)
(* the statements carry their identifiers, and locals maps each name to    *)
(* what it is bound to.  TwinSpec runs the same command line twice against *)
(* a root CLI that always prints the same text.  HistorySpec starts with a  *)
(* long history and records the rows the next root prompt lists in         *)
(* prompt_history.  CapSpec starts with the highlight and citation lists   *)
(* at their caps, and ReadSpec runs read_file over a three-line document.  *)
(*                                                                         *)
(* ServiceSpec is the ops-manager service                                  *)
(* (scripts/ops-manager-sprite-service.py): the threads of its             *)
(* ThreadingHTTPServer handling POST /ops/control against the idempotency  *)
(* file of each loop.  The worker takes no part in it.                     *)
(***************************************************************************)
EXTENDS Integers, Sequences, FiniteSets, TLC

VARIABLES
    args,           \* argparse namespace: the raw options of the run
    pc,             \* position of main(): config, loop, invoke, exec, end_fragment, assemble, exited
    max_steps,      \* ExecutionState.max_steps (enforced)
    max_depth,      \* ExecutionState.max_depth (enforced)
    timeout_seconds,\* ExecutionState.timeout_seconds (enforced)
    max_subcalls,   \* ExecutionState.max_subcalls (enforced)
    step_count,     \* ExecutionState.step_count
    subcall_count,  \* ExecutionState.subcall_count
    history,        \* ExecutionState.history
    elapsed,        \* ticks since started_at_monotonic
    highlights,     \* SandboxEnvironment.highlights
    citations,      \* SandboxEnvironment.citations
    final_value,    \* SandboxEnvironment.final_value
    final_citations,\* final_value.get("citations", []) when final_value is a mapping
    final_highlights,\* final_value.get("highlights", []) when final_value is a mapping
    code,           \* the current fragment: its statements not yet executed
    stdout_buffer,  \* the StringIO that captures the fragment's prints
    stdout,         \* the process's standard output: the records printed
    exit_code,      \* the value main() returns
    root_launches,  \* number of times subprocess.run was called for the root CLI
    sub_launches,   \* number of times subprocess.run was called for the subcall CLI
    raise_count,    \* number of exceptions raised so far in the run
    emitted,        \* number of statements the root model has emitted so far
    final_set_in_fragment, \* the current fragment has called set_final with a non-null value
    tmp_files,      \* the temporary files of invoke_cli that exist: [label, file]
    locals,         \* SandboxEnvironment.locals: the namespace the fragments run in
    context,        \* the contents of the CONTEXT mapping of _bindings: path -> text
    first_stdout,   \* standard output of an earlier run of the same command line
    prompt_history, \* the history rows listed in the root prompt built last
    idem_files,     \* ops-manager service: service-idempotency.json of each loop
    handlers,       \* ops-manager service: the do_POST call of each server thread
    control_runs,   \* ops-manager service: executions of the control script per loop and key
    completed,      \* ops-manager service: the (loop, key) pairs of the POSTs answered
    requests        \* ops-manager service: number of POSTs received

workerVars == <<args, pc, max_steps, max_depth, timeout_seconds, max_subcalls,
                step_count, subcall_count, history, elapsed, highlights, citations,
                final_value, final_citations, final_highlights, code, stdout_buffer,
                stdout, exit_code,
                root_launches, sub_launches, raise_count, emitted, final_set_in_fragment,
                tmp_files, locals, context, first_stdout, prompt_history>>

svcVars == <<idem_files, handlers, control_runs, completed, requests>>

vars == <<workerVars, svcVars>>

(***************************************************************************)
(* Bounds of the model.                                                    *)
(***************************************************************************)
MaxStepsArg == 2
MaxDepthArg == 1
MaxTimeoutArg == 1
MaxStmts == 3
MaxChildTicks == 1
TicksPerSecond == 2
MaxLine == 2
MaxHelperCalls == 2

(***************************************************************************)
(* Program constants.                                                      *)
(***************************************************************************)
MAX_CITATIONS == 120
MAX_HIGHLIGHTS == 80
MAX_HISTORY_ITEMS == 8
HISTORY_CAP == 200

None == "None"

Max(a, b) == IF a >= b THEN a ELSE b
Min(a, b) == IF a <= b THEN a ELSE b

\* Mutant of LastN: the oldest n items are kept.
LastN_Oldest(s, n) == IF Len(s) <= n THEN s ELSE SubSeq(s, 1, n)

\* history[-n:]
LastN(s, n) == IF Len(s) <= n THEN s ELSE SubSeq(s, Len(s) - n + 1, Len(s))

\* Mutant of FirstN: the newest n items are kept.
FirstN_Newest(s, n) == IF Len(s) <= n THEN s ELSE SubSeq(s, Len(s) - n + 1, Len(s))

\* s[:n]
FirstN(s, n) == IF Len(s) <= n THEN s ELSE SubSeq(s, 1, n)

InSeq(x, s) == \E i \in 1..Len(s) : s[i] = x

(***************************************************************************)
(* The sandbox validator: SAFE_BUILTINS, ALLOWED_AST_NODES, the helper     *)
(* bindings and _validate_ast.                                             *)
(***************************************************************************)
SAFE_BUILTINS ==
    {"len", "min", "max", "sum", "sorted", "range", "enumerate", "str", "int",
     "float", "bool", "list", "dict", "set", "tuple", "abs", "any", "all", "print"}

ALLOWED_AST_NODES ==
    {"Module", "Expr", "Assign", "AugAssign", "Name", "Attribute", "Load", "Store",
     "Constant", "List", "Tuple", "Set", "Dict", "Subscript", "Slice", "BinOp",
     "UnaryOp", "BoolOp", "Compare", "If", "For", "While", "Break", "Continue",
     "Pass", "Call", "keyword", "ListComp", "SetComp", "DictComp", "GeneratorExp",
     "comprehension", "FunctionDef", "arguments", "arg", "Return", "IfExp",
     "JoinedStr", "FormattedValue", "Add", "Sub", "Mult", "Div", "FloorDiv", "Mod",
     "Pow", "And", "Or", "Not", "UAdd", "USub", "Eq", "NotEq", "Lt", "LtE", "Gt",
     "GtE", "In", "NotIn", "Is", "IsNot"}

\* the isinstance tuple tested first in the validator's walk
FORBIDDEN_AST_NODES ==
    {"Import", "ImportFrom", "With", "AsyncWith", "ClassDef", "Lambda", "Global",
     "Nonlocal", "Delete", "Try", "Raise", "Assert", "AsyncFunctionDef", "Await",
     "Yield", "YieldFrom", "Match"}

\* SandboxEnvironment._bindings: the names seeded into the fragment's locals
BINDINGS ==
    {"CONTEXT", "list_files", "read_file", "grep", "slice_text", "append_highlight",
     "add_citation", "sub_rlm", "set_final"}

\* The loaded documents (docs_by_path keys).
Docs == {"a.py"}

\* Paths a fragment passes to add_citation.
Paths == {"a.py", "nope"}

\* The names of the fragments' namespace: the helper bindings, a variable x
\* and the functions g and __g a fragment may define.
Names == BINDINGS \cup {"x", "g", "__g"}

\* self.locals = dict(self._bindings): a helper name is bound to its helper
\* object, written as the name itself; the other names are not bound yet.
InitialLocals == [n \in Names |-> IF n \in BINDINGS THEN n ELSE "unbound"]

\* Mutant of refresh_bindings: the helper names are left as they are.
refresh_bindings_Skipped(ns) == ns

\* _refresh_bindings(): every helper name is bound to its helper object
\* again; the other names keep their values.
refresh_bindings(ns) == [n \in Names |-> IF n \in BINDINGS THEN n ELSE ns[n]]

\* _bindings["CONTEXT"] as built by __init__: {doc.path: doc.text}.
OriginalContext == [p \in Docs |-> "text"]

\* Values a fragment passes to set_final: None, a JSON-serialisable mapping,
\* and a set literal (ast.Set is allow-listed; json.dumps rejects a set).
FinalValues == {None, "dict", "set"}

\* Depths a fragment passes to sub_rlm.
Depths == 0..(MaxDepthArg + 1)

\* The statements a root response is made of.
Stmts ==
    [op : {"set_final"}, arg : FinalValues]
    \cup [op : {"sub_rlm"}, arg : Depths]
    \cup [op : {"append_highlight"}, arg : {"X"}]
    \cup [op : {"add_citation"}, arg : Paths]
    \cup [op : {"print"}, arg : {"out"}]
    \cup [op : {"pass"}, arg : {None}]
    \cup [op : {"import"}, arg : {"os"}]             \* import os
    \cup [op : {"try_add_citation"}, arg : {"nope"}] \* try: add_citation("nope",1,1) / except: pass

\* The ast node types statement st parses to (ast.walk of its subtree).
NodeTypes(st) ==
    CASE st.op = "set_final" ->
            {"Expr", "Call", "Name", "Load"} \cup
            (IF st.arg = "dict" THEN {"Dict", "Constant"}
             ELSE IF st.arg = "set" THEN {"Set", "Constant"} ELSE {"Constant"})
      [] st.op = "sub_rlm" -> {"Expr", "Call", "Name", "Load", "Constant", "keyword"}
      [] st.op \in {"append_highlight", "add_citation", "print"} ->
            {"Expr", "Call", "Name", "Load", "Constant"}
      [] st.op = "pass" -> {"Pass"}
      [] st.op = "while" ->
            {"While", "Compare", "Lt", "Name", "Load", "Store", "Constant", "AugAssign", "Add"}
      [] st.op = "import" -> {"Import", "alias"}
      [] st.op = "try_add_citation" ->
            {"Try", "ExceptHandler", "Pass", "Expr", "Call", "Name", "Load", "Constant"}
      [] st.op = "assign" ->
            IF st.value = "int" THEN {"Assign", "Name", "Store", "Constant"}
            ELSE {"Assign", "Name", "Store", "Load"}
      [] st.op = "store_context" ->
            {"Assign", "Subscript", "Name", "Load", "Store", "Constant"}
      [] st.op = "def" -> {"FunctionDef", "arguments", "arg", "Return", "Constant"}
      [] st.op = "call" -> {"Expr", "Call", "Name", "Load"}
      [] st.op = "dunder_kw" -> {"Expr", "Call", "Name", "Load", "keyword", "Constant"}
      [] st.op = "attribute" ->
            {"Expr", "Attribute", "Constant", "Load"} \cup (IF st.called THEN {"Call"} ELSE {})
      [] st.op = "format" -> {"Expr", "Call", "Attribute", "Constant", "Load"}
      [] st.op = "read_file" ->
            {"Assign", "Name", "Store", "Load", "Call", "Constant"} \cup
            (IF \E r \in {st.start_line, st.end_line} : r.t = "int" /\ r.v < 0
             THEN {"UnaryOp", "USub"} ELSE {})

\* The plain names statement st calls (ast.Call nodes whose func is an ast.Name).
CallNames(st) ==
    CASE st.op \in {"set_final", "sub_rlm", "append_highlight", "add_citation", "print"} -> {st.op}
      [] st.op = "try_add_citation" -> {"add_citation"}
      [] st.op = "call" -> {st.arg}
      [] st.op = "dunder_kw" -> {"dict"}
      [] st.op = "read_file" -> {"read_file"}
      [] OTHER -> {}

\* The ids of the ast.Name nodes of statement st.
NameIds(st) ==
    CASE st.op = "assign" ->
            {st.target} \cup (IF st.value = "int" THEN {} ELSE {st.value})
      [] st.op = "read_file" -> {"x", "read_file"}
      [] st.op = "store_context" -> {"CONTEXT"}
      [] st.op = "while" -> {"i"}
      [] OTHER -> CallNames(st)

\* The names of the ast.keyword nodes of statement st.
KeywordArgs(st) ==
    CASE st.op = "sub_rlm" -> {"depth"}
      [] st.op = "dunder_kw" -> {st.arg}
      [] OTHER -> {}

\* The ast.Attribute nodes of statement st: the attribute name, and whether
\* the node is the func of a call; the base is a string constant.
Attributes(st) ==
    CASE st.op = "attribute" -> {[attr |-> st.attr, called |-> st.called]}
      [] st.op = "format" -> {[attr |-> "format", called |-> TRUE]}
      [] OTHER -> {}

\* The names of the ast.FunctionDef nodes of statement st.
FunctionDefs(st) == IF st.op = "def" THEN {st.name} ELSE {}

\* name.startswith("__"), on the identifiers that occur.
IsDunder(name) == name \in {"__x", "__g", "__a", "__k", "__class__", "__len__"}

\* The method names of SAFE_METHOD_CALLS.
SAFE_METHOD_CALLS ==
    {"append", "extend", "insert", "pop", "clear", "copy", "count", "index", "sort",
     "reverse", "get", "keys", "values", "items", "update", "setdefault", "strip",
     "lstrip", "rstrip", "split", "splitlines", "join", "replace", "lower", "upper",
     "startswith", "endswith", "format"}

\* is_allowed_method_call_target(attr_node), for a base that is a string constant.
is_allowed_method_call_target(a) ==
    /\ ~IsDunder(a.attr)
    /\ a.attr \in SAFE_METHOD_CALLS

\* defined_functions: the FunctionDef names of the whole tree.
DefinedFunctions(frag) == UNION {FunctionDefs(frag[i]) : i \in 1..Len(frag)}

\* allowed_callables of _validate_ast.
AllowedCallables(frag) == SAFE_BUILTINS \cup BINDINGS \cup DefinedFunctions(frag)

\* Mutant of StmtAllowed: only the call targets are checked, not the node types.
StmtAllowed_CallsOnly(st, frag) == CallNames(st) \subseteq AllowedCallables(frag)

\* The node-walk checks of _validate_ast applied to the nodes of statement st
\* of fragment frag: TRUE iff no SandboxViolation is raised for them.
StmtAllowed(st, frag) ==
    /\ NodeTypes(st) \cap FORBIDDEN_AST_NODES = {}
    /\ NodeTypes(st) \subseteq ALLOWED_AST_NODES
    /\ \A a \in Attributes(st) : a.called /\ is_allowed_method_call_target(a)
    /\ \A n \in NameIds(st) : ~IsDunder(n)
    /\ CallNames(st) \subseteq AllowedCallables(frag)
    /\ \A k \in KeywordArgs(st) : ~IsDunder(k)


\* Mutant of ValidateAst: only the first statement is checked before execution starts.
ValidateAst_FirstOnly(frag) == StmtAllowed(frag[1], frag)

\* _validate_ast(code): the walk covers every node of the tree before execute
\* compiles anything; TRUE iff the tree is returned.
ValidateAst(frag) == \A i \in 1..Len(frag) : StmtAllowed(frag[i], frag)

\* Statements that bind names, define and call functions, store into CONTEXT
\* and use attributes, with identifiers that begin with "__" in each position:
\*   assign          target = 1   or   target = set_final
\*   store_context   CONTEXT["a.py"] = "changed"
\*   def             def name(param): return 1
\*   call            arg()
\*   dunder_kw       dict(__k=1)
\*   attribute       "a".attr   or   "a".attr()
\*   format          "{0.__class__}".format(1)   or   "{0}".format(1)
\* and the helper calls set_final, append_highlight and add_citation.
RichStmts ==
    [op : {"assign"}, target : {"set_final", "CONTEXT", "__x"}, value : {"int"}]
    \cup [op : {"assign"}, target : {"x"}, value : {"set_final"}]
    \cup [op : {"store_context"}, arg : {"a.py"}]
    \cup [op : {"def"}, name : {"g", "__g"}, param : {"a", "__a"}]
    \cup [op : {"call"}, arg : {"len", "CONTEXT", "g", "eval"}]
    \cup [op : {"dunder_kw"}, arg : {"__k"}]
    \cup {[op |-> "attribute", attr |-> "__class__", called |-> FALSE],
          [op |-> "attribute", attr |-> "__len__", called |-> TRUE],
          [op |-> "attribute", attr |-> "upper", called |-> TRUE]}
    \cup [op : {"format"}, arg : {"{0.__class__}", "{0}"}]
    \cup [op : {"set_final"}, arg : {"dict"}]
    \cup [op : {"append_highlight"}, arg : {"X"}]
    \cup [op : {"add_citation"}, arg : {"a.py"}]

\* Sequences over S of length 1..n.
SeqsUpTo(S, n) == UNION {[1..k -> S] : k \in 1..n}

\* The non-empty fragments of at most n statements.
Fragments(n) == SeqsUpTo(Stmts, n)

(***************************************************************************)
(* Configuration parsing.                                                  *)
(***************************************************************************)
\* Raw values of --root-command-json / --subcall-command-json.
RawJson == {"", "not json", "{}", "[1]", "[]", "[cmd]"}

\* parse_json_string_array(name, raw): [ok |-> FALSE] when RLMSWorkerError is
\* raised, else the parsed list.
parse_json_string_array(raw) ==
    CASE raw = "" -> [ok |-> TRUE, value |-> <<>>]
      [] raw = "not json" -> [ok |-> FALSE, value |-> <<>>]   \* json.loads fails
      [] raw = "{}" -> [ok |-> FALSE, value |-> <<>>]         \* not a list
      [] raw = "[1]" -> [ok |-> FALSE, value |-> <<>>]        \* item is not a string
      [] raw = "[]" -> [ok |-> TRUE, value |-> <<>>]
      [] raw = "[cmd]" -> [ok |-> TRUE, value |-> <<"cmd">>]

(***************************************************************************)
(* ExecutionState.                                                         *)
(***************************************************************************)
\* check_timeout(): TRUE iff LimitError is raised at clock value now.
TimeoutExceeded(now) ==
    timeout_seconds > 0 /\ now > timeout_seconds * TicksPerSecond

\* remaining_timeout(): TRUE iff it raises LimitError at clock value now.
RemainingRaises(now) ==
    timeout_seconds > 0 /\ timeout_seconds * TicksPerSecond - now <= 0

\* Mutant of RemainingTimeout: the floor of one second is missing.
RemainingTimeout_NoFloor(now) == timeout_seconds * TicksPerSecond - now

\* remaining_timeout(): the child timeout returned, in ticks (the code's None,
\* for timeout_seconds <= 0, cannot occur: the enforced value is >= 1).
RemainingTimeout(now) ==
    Max(TicksPerSecond, timeout_seconds * TicksPerSecond - now)

\* tick_step(): "" when it returns, else the LimitError message.  steps is the
\* incremented step_count.
TickStepError(steps, now) ==
    IF max_steps > 0 /\ steps > max_steps THEN "step limit exceeded"
    ELSE IF TimeoutExceeded(now) THEN "timeout exceeded"
    ELSE ""

\* Mutant of NextSubcallCount: the counter is raised after the budget test.
NextSubcallCount_AfterBudgetTest(depth) ==
    IF depth < 1 \/ depth > max_depth \/ subcall_count + 1 > max_subcalls
    THEN subcall_count ELSE subcall_count + 1

\* next_subcall(depth): the value subcall_count has when the method returns or raises.
NextSubcallCount(depth) ==
    IF depth < 1 \/ depth > max_depth THEN subcall_count ELSE subcall_count + 1


\* Mutant of NextSubcallError: the test of the subcall budget is missing.
NextSubcallError_NoBudgetTest(depth, now) ==
    IF depth < 1 THEN "subcall depth must be >= 1"
    ELSE IF depth > max_depth THEN "subcall depth exceeded"
    ELSE IF TimeoutExceeded(now) THEN "timeout exceeded"
    ELSE ""

\* Mutant of NextSubcallError: the depth test written with >=.
NextSubcallError_OffByOne(depth, now) ==
    IF depth < 1 THEN "subcall depth must be >= 1"
    ELSE IF depth >= max_depth THEN "subcall depth exceeded"
    ELSE IF subcall_count + 1 > max_subcalls THEN "subcall limit exceeded"
    ELSE IF TimeoutExceeded(now) THEN "timeout exceeded"
    ELSE ""

\* next_subcall(depth): "" when it returns, else the LimitError message.
NextSubcallError(depth, now) ==
    IF depth < 1 THEN "subcall depth must be >= 1"
    ELSE IF depth > max_depth THEN "subcall depth exceeded"
    ELSE IF subcall_count + 1 > max_subcalls THEN "subcall limit exceeded"
    ELSE IF TimeoutExceeded(now) THEN "timeout exceeded"
    ELSE ""

(***************************************************************************)
(* invoke_cli: the outcomes of one child process given its timeout.        *)
(***************************************************************************)
\* kind "exit": subprocess.run returned with returncode rc after dur ticks,
\* before the timeout ran out; kind "timeout": TimeoutExpired after the
\* timeout; kind "notfound": FileNotFoundError; kind "write_error":
\* prompt_file.write(prompt) raised (the prompt cannot be encoded, the disk is
\* full); kind "msgfile_error": the second NamedTemporaryFile raised.  All but
\* the first surface as ModelInvocationError.
ChildOutcomes(timeout) ==
    [kind : {"exit"}, rc : {0, 1}, dur : {0, Min(MaxChildTicks, timeout - 1)}]
    \cup [kind : {"timeout"}, rc : {-1}, dur : {timeout}]
    \cup [kind : {"notfound", "write_error", "msgfile_error"}, rc : {-1}, dur : {0}]

\* invoke_cli reached subprocess.run.
SubprocessRun(kind) == kind \notin {"write_error", "msgfile_error"}

\* The message of the ModelInvocationError invoke_cli raises.
InvokeCliError(label, kind) ==
    CASE kind = "timeout" -> label \o ": command timed out"
      [] kind = "notfound" -> label \o ": command not found"
      [] kind = "write_error" -> label \o ": command failed: prompt not written"
      [] kind = "msgfile_error" -> label \o ": command failed: no last-message file"

\* The temporary files invoke_cli has created when the try block is left.
TempFilesCreated(kind) ==
    IF kind \in {"write_error", "msgfile_error"} THEN {"prompt_file"}
    ELSE {"prompt_file", "last_message_file"}

\* The files whose names are in prompt_path / last_message_path at that
\* point: a name is assigned after the file is created (and, for the prompt
\* file, written).
TempPathsRecorded(kind) ==
    CASE kind = "write_error" -> {}
      [] kind = "msgfile_error" -> {"prompt_file"}
      [] OTHER -> {"prompt_file", "last_message_file"}

\* The finally clause unlinks prompt_path and last_message_path: the files
\* that still exist when invoke_cli returns or raises.
TempFilesLeft(label, kind) ==
    {[label |-> label, file |-> f] : f \in TempFilesCreated(kind) \ TempPathsRecorded(kind)}

(***************************************************************************)
(* Text and citation normalisation, and the merge that builds the          *)
(* citations of the success record.                                        *)
(***************************************************************************)
\* Texts a fragment passes to append_highlight.
HighlightTexts == {"X", " X ", "  "}

\* compact_text(text, 240) on the texts that occur: surrounding whitespace is
\* stripped and inner runs collapsed (none of the texts is longer than 240).
compact_text(text) ==
    CASE text = " X " -> "X"
      [] text = "  " -> ""
      [] OTHER -> text

\* Path arguments: a loaded document, an unknown path, the empty string, and
\* a loaded document's path with surrounding blanks.
RawPaths == {"a.py", "nope", "", " a.py "}

\* str(path).strip() on the paths that occur.
Strip(path) ==
    CASE path = " a.py " -> "a.py"
      [] OTHER -> path

\* A raw line value: an integer, a value int() raises on (None, "x"), or an
\* absent key.
IntRaw(n) == [t |-> "int", v |-> n]

RawLines ==
    [t : {"int"}, v : (-1)..MaxLine] \cup [t : {"str", "absent"}, v : {0}]

\* Snippet values: none, a text, and the same text with surrounding blanks.
RawSnippets == {"", "s", " s "}

\* compact_text(str(raw.get("snippet") or ""), MAX_SNIPPET_LEN) on the
\* snippets that occur.
CompactSnippet(snippet) ==
    CASE snippet = " s " -> "s"
      [] OTHER -> snippet

\* Raw citations of lines 1..1 of a.py with a snippet.
SnippetCitations ==
    [isdict : {TRUE}, path : {"a.py"}, start_line : {IntRaw(1)}, end_line : {IntRaw(1)},
     signal : {"reference"}, snippet : RawSnippets]

\* Raw items of a citations list: a non-mapping, or a mapping with a path,
\* raw line values and a snippet.
RawCitations ==
    {[isdict |-> FALSE]}
    \cup [isdict : {TRUE}, path : RawPaths, start_line : RawLines, end_line : RawLines,
          signal : {"reference"}, snippet : {""}]
    \cup SnippetCitations

\* Mutant of CitationLines: end_line is converted but not raised to start_line.
CitationLines_EndNotClamped(start, end) ==
    IF start.t = "int" /\ end.t = "int"
    THEN [start_line |-> Max(1, start.v), end_line |-> end.v]
    ELSE [start_line |-> 1, end_line |-> 1]

\* normalize_citation, the line numbers: start and end are the values looked
\* up (defaults applied); the except clause gives (1, 1).
CitationLines(start, end) ==
    IF start.t = "int" /\ end.t = "int"
    THEN [start_line |-> Max(1, start.v), end_line |-> Max(Max(1, start.v), end.v)]
    ELSE [start_line |-> 1, end_line |-> 1]

\* normalize_citation(raw): <<>> for None, else the one normalised citation.
normalize_citation(raw) ==
    IF ~raw.isdict THEN <<>>
    ELSE IF Strip(raw.path) = "" THEN <<>>
    ELSE LET start == IF raw.start_line.t = "absent" THEN IntRaw(1) ELSE raw.start_line
             end == IF raw.end_line.t = "absent" THEN start ELSE raw.end_line
             lines == CitationLines(start, end)
         IN  <<[path |-> Strip(raw.path), start_line |-> lines.start_line,
                end_line |-> lines.end_line, signal |-> raw.signal,
                snippet |-> CompactSnippet(raw.snippet)]>>

\* A normalised citation seen as the mapping it is.
AsRaw(c) ==
    [isdict |-> TRUE, path |-> c.path, start_line |-> IntRaw(c.start_line),
     end_line |-> IntRaw(c.end_line), signal |-> c.signal, snippet |-> c.snippet]

\* The normalised items of a raw list, in order: the loop over the items,
\* run on the two halves of the list one after the other.
RECURSIVE NormalizeAll(_)
NormalizeAll(raws) ==
    IF raws = <<>> THEN <<>>
    ELSE IF Len(raws) = 1 THEN normalize_citation(raws[1])
    ELSE LET half == Len(raws) \div 2
         IN  NormalizeAll(SubSeq(raws, 1, half)) \o NormalizeAll(SubSeq(raws, half + 1, Len(raws)))

\* The positions of items whose item differs from every earlier one.
FirstOccurrences(items) ==
    {i \in 1..Len(items) : \A j \in 1..(i - 1) : items[j] # items[i]}

\* The items at the positions in kept, in their order.
ItemsAt(items, kept) ==
    LET chosen == SelectSeq([i \in 1..Len(items) |-> [idx |-> i, item |-> items[i]]],
                            LAMBDA p : p.idx \in kept)
    IN  [k \in 1..Len(chosen) |-> chosen[k].item]

\* Mutant of dedupe_citations: the key leaves the snippet out.
dedupe_citations_KeyWithoutSnippet(items) ==
    LET fresh == {i \in 1..Len(items) :
                     \A j \in 1..(i - 1) :
                        [items[j] EXCEPT !.snippet = ""] # [items[i] EXCEPT !.snippet = ""]}
        kept == {i \in fresh : Cardinality({j \in fresh : j < i}) < MAX_CITATIONS}
    IN  ItemsAt(items, kept)

\* dedupe_citations(items): the loop appends an item when its key, which is
\* all five fields, was not seen before, and stops after the append that
\* brings the list to MAX_CITATIONS items.
dedupe_citations(items) ==
    LET fresh == FirstOccurrences(items)
        kept == {i \in fresh : Cardinality({j \in fresh : j < i}) < MAX_CITATIONS}
    IN  ItemsAt(items, kept)

\* The context file lists of a run: the document a.py with a line that
\* matches a structural pattern ("class A:"), or without one.
ContextFileLists == {"signals", "plain"}

\* collect_structural_signals(docs)[1]
StructuralCitations(file_list) ==
    IF file_list = "signals"
    THEN <<[path |-> "a.py", start_line |-> 1, end_line |-> 1, signal |-> "class",
            snippet |-> "class A:"]>>
    ELSE <<>>

\* The file_reference citations synthesised for docs[:8].
FileReferenceCitations ==
    <<[path |-> "a.py", start_line |-> 1, end_line |-> 1, signal |-> "file_reference",
       snippet |-> "Fallback citation generated because no explicit citation was produced"]>>

\* parse_bool(value)
parse_bool(value) == value \in {"1", "true", "yes", "on"}

\* merge_citations(final_value, sandbox_citations, fallback_citations,
\* require_citations, docs); final_raw is final_value's citations list.
merge_citations(final_raw, sandbox_citations, fallback_citations, require_citations) ==
    LET explicit == NormalizeAll(final_raw)
                    \o NormalizeAll([i \in 1..Len(sandbox_citations) |-> AsRaw(sandbox_citations[i])])
        withFallback ==
            IF explicit # <<>> THEN explicit
            ELSE NormalizeAll([i \in 1..Len(FirstN(fallback_citations, MAX_CITATIONS)) |->
                                   AsRaw(fallback_citations[i])])
        items ==
            IF require_citations /\ withFallback = <<>> THEN FileReferenceCitations
            ELSE withFallback
    IN  dedupe_citations(items)

\* Raw items of a highlights list passed to set_final.
RawHighlights == HighlightTexts \cup {"F"}

\* collect_structural_signals(docs)[0]: the totals merge_highlights reads.
StructuralSignals(file_list) ==
    [class |-> IF file_list = "signals" THEN 1 ELSE 0, python_def |-> 0, function |-> 0]

\* Number of loaded documents.
FileCount == Cardinality(Docs)

\* The fallback highlights merge_highlights writes into an empty list.
FallbackHighlights(fallback_signals, file_count) ==
    <<"Processed " \o ToString(file_count) \o " file(s) via REPL RLMS">>
    \o (IF fallback_signals.class > 0
        THEN <<"Detected " \o ToString(fallback_signals.class) \o " class declaration(s)">>
        ELSE <<>>)
    \o (IF fallback_signals.python_def + fallback_signals.function > 0
        THEN <<"Detected " \o ToString(fallback_signals.python_def + fallback_signals.function)
                \o " named function definition(s)">>
        ELSE <<>>)

\* The loops of merge_highlights: value appended if non-empty and not in out.
\* normalise is TRUE for the items of final.highlights, which go through
\* compact_text, and FALSE for the sandbox highlights, which do not.
AppendNew(out, items, normalise) ==
    LET values == [i \in 1..Len(items) |->
                      IF normalise THEN compact_text(items[i]) ELSE items[i]]
        all == out \o values
        kept == {i \in 1..Len(all) :
                    \/ i <= Len(out)
                    \/ all[i] # "" /\ \A j \in 1..(i - 1) : all[j] # all[i]}
    IN  ItemsAt(all, kept)

\* merge_highlights(final_value, sandbox_highlights, fallback_signals,
\* file_count); final_raw is final_value's highlights list (empty when
\* final_value is not a mapping).
merge_highlights(final_raw, sandbox_highlights, fallback_signals, file_count) ==
    LET declared == AppendNew(<<>>, final_raw, TRUE)
        out == AppendNew(declared, sandbox_highlights, FALSE)
    IN  FirstN(IF out = <<>> THEN FallbackHighlights(fallback_signals, file_count) ELSE out,
               MAX_HIGHLIGHTS)

(***************************************************************************)
(* Result records and the except handlers of main().                       *)
(***************************************************************************)
ErrorCodes ==
    {"invalid_config", "missing_root_command", "limit_exceeded",
     "sandbox_violation", "model_invocation_failed", "worker_failure"}

\* Mutant of ErrorCodeOf: the ModelInvocationError clause is missing, so the
\* exception falls through to except Exception.
ErrorCodeOf_NoInvocationClause(exc) ==
    CASE exc = "LimitError" -> "limit_exceeded"
      [] exc = "SandboxViolation" -> "sandbox_violation"
      [] OTHER -> "worker_failure"

\* Mutant of ErrorCodeOf: the last clause writes model_invocation_failed.
ErrorCodeOf_OtherAsInvocation(exc) ==
    CASE exc = "LimitError" -> "limit_exceeded"
      [] exc = "SandboxViolation" -> "sandbox_violation"
      [] OTHER -> "model_invocation_failed"

\* The except clause that catches an exception class, as the error_code it writes.
ErrorCodeOf(exc) ==
    CASE exc = "LimitError" -> "limit_exceeded"
      [] exc = "SandboxViolation" -> "sandbox_violation"
      [] exc = "ModelInvocationError" -> "model_invocation_failed"
      [] OTHER -> "worker_failure"


\* Mutant of ExitCodeOf: the SandboxViolation clause returns 2.
ExitCodeOf_Swapped(exc) ==
    CASE exc = "LimitError" -> 2
      [] exc = "SandboxViolation" -> 2
      [] exc = "ModelInvocationError" -> 1
      [] OTHER -> 1

\* The value the except clause returns.
ExitCodeOf(exc) ==
    CASE exc = "LimitError" -> 2
      [] exc = "SandboxViolation" -> 1
      [] exc = "ModelInvocationError" -> 1
      [] OTHER -> 1

\* load_metadata(args.metadata_file) or None: no metadata file is given.
Metadata == None

\* The failure record of the except clauses of the REPL try block, written
\* at clock value now.
FailureRecord(exc, msg, steps, subs, hist, now) ==
    [ok |-> FALSE, error |-> msg, error_code |-> ErrorCodeOf(exc),
     stats |-> [step_count |-> steps, subcall_count |-> subs, elapsed_seconds |-> now],
     trace |-> LastN(hist, MAX_HISTORY_ITEMS),
     metadata |-> Metadata]

\* The failure record of the two configuration exits (no stats, no trace).
ConfigFailureRecord(errcode, msg) ==
    [ok |-> FALSE, error |-> msg, error_code |-> errcode, metadata |-> Metadata]

\* The success record.
SuccessRecord ==
    [ok |-> TRUE,
     limits |-> [max_steps |-> args.max_steps, max_depth |-> args.max_depth,
                 timeout_seconds |-> args.timeout_seconds, max_subcalls |-> max_subcalls],
     stats |-> [step_count |-> step_count, subcall_count |-> subcall_count,
                elapsed_seconds |-> elapsed],
     highlights |-> merge_highlights(final_highlights, highlights,
                                     StructuralSignals(args.context_file_list), FileCount),
     citations |-> merge_citations(final_citations, citations,
                                   StructuralCitations(args.context_file_list),
                                   parse_bool(args.require_citations)),
     trace |-> LastN(history, MAX_HISTORY_ITEMS),
     final |-> final_value,
     metadata |-> Metadata]

\* json.dumps accepts the value (a set is not JSON serialisable).
JsonSerializable(v) == v # "set"

\* An exception of class exc propagates to main()'s try block with the ledger
\* at (steps, subs, hist): the matching except clause prints the failure
\* record and main returns.
RaiseAt(exc, msg, steps, subs, hist, now) ==
    /\ raise_count' = raise_count + 1
    /\ stdout' = Append(stdout, FailureRecord(exc, msg, steps, subs, hist, now))
    /\ exit_code' = ExitCodeOf(exc)
    /\ pc' = "exited"

\* The same where the step has not advanced the clock.
Raise(exc, msg, steps, subs, hist) == RaiseAt(exc, msg, steps, subs, hist, elapsed)

\* Control stays in main(): nothing is raised, nothing is printed.
Goto(label) ==
    /\ pc' = label
    /\ UNCHANGED <<raise_count, stdout, exit_code>>

\* summarize_history(history): the rows of the prompt's history section, one
\* for each of the last MAX_HISTORY_ITEMS rows of history (step and rc).
summarize_history(hist) ==
    LET rows == LastN(hist, MAX_HISTORY_ITEMS)
    IN  [i \in 1..Len(rows) |-> [step |-> rows[i].step, rc |-> rows[i].returncode]]

cfgVars == <<args, max_steps, max_depth, timeout_seconds, max_subcalls>>
sandboxVars == <<highlights, citations, final_value, final_citations, final_highlights>>
launchVars == <<root_launches, sub_launches>>
nsVars == <<locals, context>>
fragVars == <<code, stdout_buffer, final_set_in_fragment, emitted>>

(***************************************************************************)
(* The ops-manager service (scripts/ops-manager-sprite-service.py): the    *)
(* files and the server threads before any request.                        *)
(***************************************************************************)
\* The POSTs the clients send over a run.
MaxRequests == 3

\* The threads of ThreadingHTTPServer that handle requests at the same time.
MaxThreads == 2

Threads == 1..MaxThreads

\* loopId values and idempotency keys of the requests ("" when not given).
Loops == {"L1", "L2"}

Keys == {"k1", "k2"}

\* The exit codes of the control script.
ExitCodes == {0, 1, 2}

\* A key that a map does not hold.
Absent == [absent |-> TRUE]

\* json_load(idem_file, {}) of a file that does not exist.
EmptyMap == [k \in Keys |-> Absent]

\* A server thread that is handling no request, and has sent no response.
IdleHandler ==
    [pc |-> "idle", loop |-> "", key |-> "", idem_map |-> EmptyMap,
     response |-> Absent, reply |-> Absent, late |-> FALSE]

\* The service has received no request.
ServiceIdle ==
    /\ idem_files = [l \in Loops |-> EmptyMap]
    /\ handlers = [t \in Threads |-> IdleHandler]
    /\ control_runs = [l \in Loops |-> [k \in Keys \cup {""} |-> 0]]
    /\ completed = {}
    /\ requests = 0

(***************************************************************************)
(* Initial state: the options the external invoker supplies.               *)
(***************************************************************************)
Init ==
    /\ args \in [max_steps : 0..MaxStepsArg,
                 max_depth : 1..MaxDepthArg,
                 timeout_seconds : 1..MaxTimeoutArg,
                 root_command_json : RawJson,
                 subcall_command_json : {"", "not json"},
                 context_file_list : {"signals"},
                 require_citations : {"true"}]
    /\ pc = "config"
    /\ max_steps = 0
    /\ max_depth = 0
    /\ timeout_seconds = 0
    /\ max_subcalls = 0
    /\ step_count = 0
    /\ subcall_count = 0
    /\ history = <<>>
    /\ elapsed = 0
    /\ highlights = <<>>
    /\ citations = <<>>
    /\ final_value = None
    /\ final_citations = <<>>
    /\ final_highlights = <<>>
    /\ code = <<>>
    /\ stdout_buffer = <<>>
    /\ stdout = <<>>
    /\ exit_code = None
    /\ root_launches = 0
    /\ sub_launches = 0
    /\ raise_count = 0
    /\ emitted = 0
    /\ final_set_in_fragment = FALSE
    /\ tmp_files = {}
    /\ locals = InitialLocals
    /\ context = OriginalContext
    /\ first_stdout = <<>>
    /\ prompt_history = <<>>
    /\ ServiceIdle

(***************************************************************************)
(* main(): configuration handling, up to the construction of the sandbox.  *)
(***************************************************************************)
ParseConfig ==
    /\ pc = "config"
    /\ LET root == parse_json_string_array(args.root_command_json)
           sub == parse_json_string_array(args.subcall_command_json)
       IN  IF ~root.ok \/ ~sub.ok
           THEN \* except RLMSWorkerError: print the record, return 2
                /\ raise_count' = raise_count + 1
                /\ stdout' = Append(stdout, ConfigFailureRecord("invalid_config", "must be a JSON array"))
                /\ exit_code' = 2
                /\ pc' = "exited"
                /\ UNCHANGED <<max_steps, max_depth, timeout_seconds, max_subcalls>>
           ELSE IF root.value = <<>>
           THEN /\ stdout' = Append(stdout, ConfigFailureRecord("missing_root_command", "root command is empty"))
                /\ exit_code' = 2
                /\ pc' = "exited"
                /\ UNCHANGED <<raise_count, max_steps, max_depth, timeout_seconds, max_subcalls>>
           ELSE /\ max_steps' = Max(1, args.max_steps)
                /\ max_depth' = Max(1, args.max_depth)
                /\ timeout_seconds' = Max(1, args.timeout_seconds)
                /\ max_subcalls' = Max(1, args.max_steps * 2)
                /\ Goto("loop")
    /\ UNCHANGED <<args, step_count, subcall_count, history, elapsed>>
    /\ UNCHANGED <<sandboxVars, launchVars, fragVars>>
    /\ UNCHANGED <<tmp_files, nsVars, first_stdout, prompt_history, svcVars>>

(***************************************************************************)
(* main(): the REPL loop.                                                  *)
(***************************************************************************)
\* while sandbox.final_value is None: state.tick_step(); build_root_prompt(...)
TickStep ==
    /\ pc = "loop"
    /\ final_value = None
    /\ step_count' = step_count + 1
    /\ LET err == TickStepError(step_count + 1, elapsed)
       IN  IF err # ""
           THEN /\ Raise("LimitError", err, step_count + 1, subcall_count, history)
                /\ UNCHANGED prompt_history
           ELSE \* prompt = build_root_prompt(..., state=state)
                /\ prompt_history' = summarize_history(history)
                /\ Goto("invoke")
    /\ UNCHANGED <<cfgVars, subcall_count, history, elapsed>>
    /\ UNCHANGED <<sandboxVars, launchVars, fragVars>>
    /\ UNCHANGED <<tmp_files, nsVars, first_stdout, svcVars>>

\* response = invoke_cli(root_cli, prompt, repo, state.remaining_timeout());
\* if not response.get("ok"): raise ModelInvocationError;
\* code = extract_python_code(stdout); then sandbox.execute(code) up to the
\* start of exec(): _validate_ast, _refresh_bindings, redirect_stdout.
\* The fragment is kept in code also when it is refused.  outs are the
\* outcomes the root child may have, frags the fragments it may answer with.
InvokeRootWith(outs, frags) ==
    /\ pc = "invoke"
    /\ IF RemainingRaises(elapsed)
       THEN /\ Raise("LimitError", "timeout exceeded", step_count, subcall_count, history)
            /\ UNCHANGED <<elapsed, root_launches, fragVars, tmp_files, locals>>
       ELSE \E out \in outs :
              /\ root_launches' = root_launches + (IF SubprocessRun(out.kind) THEN 1 ELSE 0)
              /\ elapsed' = elapsed + out.dur
              /\ tmp_files' = tmp_files \cup TempFilesLeft("root", out.kind)
              /\ IF out.kind # "exit"
                 THEN /\ RaiseAt("ModelInvocationError", InvokeCliError("root", out.kind), step_count, subcall_count, history, elapsed + out.dur)
                      /\ UNCHANGED <<fragVars, locals>>
                 ELSE IF out.rc # 0
                 THEN /\ RaiseAt("ModelInvocationError", "root command failed", step_count, subcall_count, history, elapsed + out.dur)
                      /\ UNCHANGED <<fragVars, locals>>
                 ELSE \E frag \in frags :
                        /\ code' = frag
                        /\ emitted' = emitted + Len(frag)
                        /\ stdout_buffer' = <<>>
                        /\ final_set_in_fragment' = FALSE
                        /\ IF frag = <<>>
                           THEN /\ RaiseAt("RLMSWorkerError", "root model returned empty response", step_count, subcall_count, history, elapsed + out.dur)
                                /\ UNCHANGED locals
                           ELSE IF ~ValidateAst(frag)
                           THEN /\ RaiseAt("SandboxViolation", "node type or call target not allowed", step_count, subcall_count, history, elapsed + out.dur)
                                /\ UNCHANGED locals
                           ELSE /\ locals' = refresh_bindings(locals)
                                /\ Goto("exec")
    /\ UNCHANGED <<cfgVars, step_count, subcall_count, history, sub_launches>>
    /\ UNCHANGED <<sandboxVars, context, first_stdout, prompt_history, svcVars>>

\* The root CLI is any child process, and answers with any fragment of the
\* statements the root model has left, or with nothing.
InvokeRoot ==
    /\ pc = "invoke"
    /\ InvokeRootWith(ChildOutcomes(RemainingTimeout(elapsed)),
                      Fragments(MaxStmts - emitted) \cup {<<>>})

\* Mutant of RedirectStdout: exec() runs without the redirect.
RedirectStdout_Missing == FALSE

\* with redirect_stdout(stdout_buffer): inside execute, print writes to the buffer
RedirectStdout == TRUE

\* The statement exec() runs next is of kind opname; for a call of a helper,
\* the helper's name is still bound to the helper.
Running(opname) ==
    /\ pc = "exec"
    /\ code # <<>>
    /\ Head(code).op = opname
    /\ opname \in BINDINGS => locals[opname] = opname

\* The statement returned normally: exec() goes on with the next one.
NextStmt ==
    /\ code' = Tail(code)
    /\ Goto("exec")

\* The citations lists a set_final statement may pass inside its mapping: none
\* when the statement names none, else a list of at most one raw item, which
\* is a citation with a snippet or any raw item.
FinalCitationsOf(st) ==
    IF "citations" \notin DOMAIN st THEN {<<>>}
    ELSE IF st.citations = "snippets" THEN {<<>>} \cup {<<r>> : r \in SnippetCitations}
    ELSE {<<>>} \cup {<<r>> : r \in RawCitations}

\* The highlights lists a set_final statement may pass inside its mapping:
\* none when the statement names none, else a list of at most two raw items.
FinalHighlightsOf(st) ==
    IF "highlights" \notin DOMAIN st THEN {<<>>}
    ELSE {<<>>} \cup {<<r>> : r \in RawHighlights} \cup {<<"F", " X ">>, <<"X", " X ">>}

\* SandboxEnvironment.set_final
SetFinal ==
    /\ Running("set_final")
    /\ final_value' = Head(code).arg
    /\ \E raw \in FinalCitationsOf(Head(code)) : final_citations' = raw
    /\ \E raw \in FinalHighlightsOf(Head(code)) : final_highlights' = raw
    /\ final_set_in_fragment' = (final_set_in_fragment \/ Head(code).arg # None)
    /\ NextStmt
    /\ UNCHANGED <<cfgVars, step_count, subcall_count, history, elapsed>>
    /\ UNCHANGED <<highlights, citations, launchVars, stdout_buffer, emitted>>
    /\ UNCHANGED <<tmp_files, nsVars, first_stdout, prompt_history, svcVars>>

\* Mutant of append_highlight: the membership test is missing.
append_highlight_NoMembershipTest(list, text) ==
    LET value == compact_text(text)
    IN  IF value = "" THEN list ELSE FirstN(Append(list, value), MAX_HIGHLIGHTS)

\* SandboxEnvironment.append_highlight(text): the list it leaves.
append_highlight(list, text) ==
    LET value == compact_text(text)
        added == IF InSeq(value, list) THEN list ELSE Append(list, value)
    IN  IF value = "" THEN list ELSE FirstN(added, MAX_HIGHLIGHTS)

\* A fragment calls append_highlight.
AppendHighlight ==
    /\ Running("append_highlight")
    /\ highlights' = append_highlight(highlights, Head(code).arg)
    /\ NextStmt
    /\ UNCHANGED <<cfgVars, step_count, subcall_count, history, elapsed>>
    /\ UNCHANGED <<citations, final_value, final_citations, final_highlights>>
    /\ UNCHANGED <<launchVars, stdout_buffer, emitted, final_set_in_fragment>>
    /\ UNCHANGED <<tmp_files, nsVars, first_stdout, prompt_history, svcVars>>

\* The (start_line, end_line) arguments an add_citation statement may pass:
\* (1, 1) when the statement names none, else any two raw values.
CitationArgsOf(st) ==
    IF "lines" \notin DOMAIN st THEN {<<IntRaw(1), IntRaw(1)>>}
    ELSE {a \in RawLines \X RawLines : a[1].t # "absent" /\ a[2].t # "absent"}

\* citation["path"] in self.docs_by_path
KnownPath(path) == path \in Docs

\* SandboxEnvironment.add_citation(path, start_line, end_line)
AddCitation ==
    /\ Running("add_citation")
    /\ \E a \in CitationArgsOf(Head(code)) :
         LET citation == normalize_citation([isdict |-> TRUE, path |-> Head(code).arg,
                                             start_line |-> a[1], end_line |-> a[2],
                                             signal |-> "reference", snippet |-> ""])
         IN  IF citation = <<>>
             THEN /\ NextStmt
                  /\ UNCHANGED citations
             ELSE IF ~KnownPath(citation[1].path)
             THEN /\ Raise("SandboxViolation", "citation path not in context", step_count, subcall_count, history)
                  /\ UNCHANGED <<citations, code>>
             ELSE /\ citations' = FirstN(Append(citations, citation[1]), MAX_CITATIONS)
                  /\ NextStmt
    /\ UNCHANGED <<cfgVars, step_count, subcall_count, history, elapsed>>
    /\ UNCHANGED <<highlights, final_value, final_citations, final_highlights>>
    /\ UNCHANGED <<launchVars, stdout_buffer, emitted, final_set_in_fragment>>
    /\ UNCHANGED <<tmp_files, nsVars, first_stdout, prompt_history, svcVars>>

\* print(...) inside a fragment
PrintStmt ==
    /\ Running("print")
    /\ IF RedirectStdout
       THEN /\ stdout_buffer' = Append(stdout_buffer, [text |-> Head(code).arg])
            /\ NextStmt
       ELSE /\ stdout' = Append(stdout, [text |-> Head(code).arg])
            /\ code' = Tail(code)
            /\ pc' = "exec"
            /\ UNCHANGED <<stdout_buffer, raise_count, exit_code>>
    /\ UNCHANGED <<cfgVars, step_count, subcall_count, history, elapsed>>
    /\ UNCHANGED <<sandboxVars, launchVars, emitted, final_set_in_fragment>>
    /\ UNCHANGED <<tmp_files, nsVars, first_stdout, prompt_history, svcVars>>

\* SandboxEnvironment.sub_rlm(prompt, depth)
SubRlm ==
    /\ Running("sub_rlm")
    /\ LET depth == Head(code).arg
           err == NextSubcallError(depth, elapsed)
           subs == NextSubcallCount(depth)
       IN  /\ subcall_count' = subs
           /\ IF err # ""
              THEN /\ Raise("LimitError", err, step_count, subs, history)
                   /\ UNCHANGED <<history, elapsed, sub_launches, code, tmp_files>>
              ELSE IF RemainingRaises(elapsed)
              THEN /\ Raise("LimitError", "timeout exceeded", step_count, subs, history)
                   /\ UNCHANGED <<history, elapsed, sub_launches, code, tmp_files>>
              ELSE \E out \in ChildOutcomes(RemainingTimeout(elapsed)) :
                     /\ sub_launches' = sub_launches + (IF SubprocessRun(out.kind) THEN 1 ELSE 0)
                     /\ elapsed' = elapsed + out.dur
                     /\ tmp_files' = tmp_files \cup TempFilesLeft("subcall", out.kind)
                     /\ IF out.kind # "exit"
                        THEN /\ RaiseAt("ModelInvocationError", InvokeCliError("subcall", out.kind), step_count, subs, history, elapsed + out.dur)
                             /\ UNCHANGED <<history, code>>
                        ELSE LET row == [step |-> step_count, type |-> "subcall", returncode |-> out.rc]
                                 hist == LastN(Append(history, row), HISTORY_CAP)
                             IN  /\ history' = hist
                                 /\ IF out.rc # 0
                                    THEN /\ RaiseAt("ModelInvocationError", "subcall command failed", step_count, subs, hist, elapsed + out.dur)
                                         /\ UNCHANGED code
                                    ELSE NextStmt
    /\ UNCHANGED <<cfgVars, step_count, root_launches>>
    /\ UNCHANGED <<sandboxVars, stdout_buffer, emitted, final_set_in_fragment>>
    /\ UNCHANGED <<nsVars, first_stdout, prompt_history, svcVars>>

\* A statement that calls no helper.  The last two kinds are what exec() does
\* with a tree the validator lets through: the restricted builtins hold no
\* __import__, and an except clause swallows what its body raises.
ExecPlain ==
    /\ pc = "exec"
    /\ code # <<>>
    /\ Head(code).op \in {"pass", "import", "try_add_citation", "attribute", "format"}
    /\ CASE Head(code).op \in {"pass", "attribute", "format"} -> NextStmt
         [] Head(code).op = "import" ->
               /\ Raise("ImportError", "__import__ not found", step_count, subcall_count, history)
               /\ UNCHANGED code
         [] Head(code).op = "try_add_citation" ->
               /\ raise_count' = raise_count + 1
               /\ code' = Tail(code)
               /\ pc' = "exec"
               /\ UNCHANGED <<stdout, exit_code>>
    /\ UNCHANGED <<cfgVars, step_count, subcall_count, history, elapsed>>
    /\ UNCHANGED <<sandboxVars, launchVars, stdout_buffer, emitted, final_set_in_fragment>>
    /\ UNCHANGED <<tmp_files, nsVars, first_stdout, prompt_history, svcVars>>

\* The attribute names of the replacement fields of the format string of
\* statement st: str.format looks each of them up on its argument.
FormatFieldAttributes(st) ==
    IF st.op = "format" /\ st.arg = "{0.__class__}" THEN {"__class__"} ELSE {}

\* The attributes the execution of statement st reads.
AttributesRead(st) == {a.attr : a \in Attributes(st)} \cup FormatFieldAttributes(st)

\* target = value at the top level of a fragment: the name is bound in locals.
Assign ==
    /\ Running("assign")
    /\ locals' = [locals EXCEPT ![Head(code).target] =
                      IF Head(code).value = "int" THEN "int" ELSE locals[Head(code).value]]
    /\ NextStmt
    /\ UNCHANGED <<cfgVars, step_count, subcall_count, history, elapsed>>
    /\ UNCHANGED <<sandboxVars, launchVars, stdout_buffer, emitted, final_set_in_fragment>>
    /\ UNCHANGED <<tmp_files, context, first_stdout, prompt_history, svcVars>>

\* CONTEXT[path] = "changed": a store into the mapping CONTEXT is bound to,
\* which is the one mapping _bindings holds; TypeError when the fragment has
\* bound CONTEXT to something else.
StoreContext ==
    /\ Running("store_context")
    /\ IF locals["CONTEXT"] = "CONTEXT"
       THEN /\ context' = [context EXCEPT ![Head(code).arg] = "changed"]
            /\ NextStmt
       ELSE /\ Raise("TypeError", "object does not support item assignment", step_count, subcall_count, history)
            /\ UNCHANGED <<context, code>>
    /\ UNCHANGED <<cfgVars, step_count, subcall_count, history, elapsed>>
    /\ UNCHANGED <<sandboxVars, launchVars, stdout_buffer, emitted, final_set_in_fragment>>
    /\ UNCHANGED <<tmp_files, locals, first_stdout, prompt_history, svcVars>>

\* def name(param): return 1 -- the name is bound to the function.
FunctionDef ==
    /\ Running("def")
    /\ locals' = [locals EXCEPT ![Head(code).name] = "function"]
    /\ NextStmt
    /\ UNCHANGED <<cfgVars, step_count, subcall_count, history, elapsed>>
    /\ UNCHANGED <<sandboxVars, launchVars, stdout_buffer, emitted, final_set_in_fragment>>
    /\ UNCHANGED <<tmp_files, context, first_stdout, prompt_history, svcVars>>

\* The value a name evaluates to at the top level of a fragment: locals, then
\* the builtins of the globals passed to exec(); "unbound" is NameError.
Lookup(name) ==
    IF name \in Names /\ locals[name] # "unbound" THEN locals[name]
    ELSE IF name \in SAFE_BUILTINS THEN "builtin"
    ELSE "unbound"

\* The values that can be called: the helper methods, functions and builtins
\* (not the CONTEXT mapping, not an integer).
Callable(value) == value \in (BINDINGS \ {"CONTEXT"}) \cup {"function", "builtin"}

\* A call of a plain name other than a helper (the call returns at once), or
\* a call of a helper name the fragment has bound to something else.
CallName ==
    /\ pc = "exec"
    /\ code # <<>>
    /\ \/ Head(code).op = "call"
       \/ Head(code).op \in BINDINGS /\ locals[Head(code).op] # Head(code).op
    /\ LET name == IF Head(code).op = "call" THEN Head(code).arg ELSE Head(code).op
           value == Lookup(name)
       IN  IF value = "unbound"
           THEN /\ Raise("NameError", "name is not defined", step_count, subcall_count, history)
                /\ UNCHANGED code
           ELSE IF ~Callable(value)
           THEN /\ Raise("TypeError", "object is not callable", step_count, subcall_count, history)
                /\ UNCHANGED code
           ELSE NextStmt
    /\ UNCHANGED <<cfgVars, step_count, subcall_count, history, elapsed>>
    /\ UNCHANGED <<sandboxVars, launchVars, stdout_buffer, emitted, final_set_in_fragment>>
    /\ UNCHANGED <<tmp_files, nsVars, first_stdout, prompt_history, svcVars>>

\* A loop that calls no helper (while i < n: i += 1): exec() runs it to its
\* end, however long it takes; arg is the time it takes, in ticks.
Spin ==
    /\ Running("while")
    /\ elapsed' = elapsed + Head(code).arg
    /\ NextStmt
    /\ UNCHANGED <<cfgVars, step_count, subcall_count, history>>
    /\ UNCHANGED <<sandboxVars, launchVars, stdout_buffer, emitted, final_set_in_fragment>>
    /\ UNCHANGED <<tmp_files, nsVars, first_stdout, prompt_history, svcVars>>

\* Mutant of RootRow: the row carries the number of the step to come.
RootRow_NextStep(step) == [step |-> step + 1, type |-> "root", returncode |-> 0]

\* The root trace row main() appends for a step (the response was ok, so its
\* returncode is 0).
RootRow(step) == [step |-> step, type |-> "root", returncode |-> 0]

\* Mutants of StepLimitReached: the test written with > (one step too late),
\* and written against the next step (one step too early).
StepLimitReached_Late == final_value = None /\ step_count > max_steps

StepLimitReached_Early == final_value = None /\ step_count + 1 >= max_steps

\* if sandbox.final_value is None and state.step_count >= state.max_steps
StepLimitReached == final_value = None /\ step_count >= max_steps

\* execute() returns: the root trace row is appended (the response was ok, so
\* its returncode is 0) and the step limit tested.  What the fragment printed
\* stays in the buffer, whose text execute() returns for the row's preview.
EndFragment ==
    /\ pc = "exec"
    /\ code = <<>>
    /\ LET row == RootRow(step_count)
           hist == LastN(Append(history, row), HISTORY_CAP)
       IN  /\ history' = hist
           /\ IF StepLimitReached
              THEN Raise("LimitError", "final value was not set before max_steps", step_count, subcall_count, hist)
              ELSE Goto("loop")
    /\ UNCHANGED <<cfgVars, step_count, subcall_count, elapsed>>
    /\ UNCHANGED <<sandboxVars, launchVars, fragVars>>
    /\ UNCHANGED <<tmp_files, nsVars, first_stdout, prompt_history, svcVars>>

\* The loop has ended: the result record is assembled and printed; json.dumps
\* raising TypeError is caught by except Exception.
Assemble ==
    /\ pc = "loop"
    /\ final_value # None
    /\ IF JsonSerializable(final_value)
       THEN /\ stdout' = Append(stdout, SuccessRecord)
            /\ exit_code' = 0
            /\ pc' = "exited"
            /\ UNCHANGED raise_count
       ELSE Raise("TypeError", "Object is not JSON serializable", step_count, subcall_count, history)
    /\ UNCHANGED <<cfgVars, step_count, subcall_count, history, elapsed>>
    /\ UNCHANGED <<sandboxVars, launchVars, fragVars>>
    /\ UNCHANGED <<tmp_files, nsVars, first_stdout, prompt_history, svcVars>>

Next ==
    \/ ParseConfig
    \/ TickStep
    \/ InvokeRoot
    \/ SetFinal
    \/ AppendHighlight
    \/ AddCitation
    \/ PrintStmt
    \/ SubRlm
    \/ ExecPlain
    \/ EndFragment
    \/ Assemble

Spec == Init /\ [][Next]_vars

(***************************************************************************)
(* The sandbox part-way through the fragment of the first step: earlier    *)
(* statements of the fragment have filled the highlight list or the        *)
(* citation list, and the statements still to run call the sandbox helpers *)
(* with arguments of every shape.                                          *)
(***************************************************************************)
\* n distinct highlight texts: "h1", ..., "hn".
Filler(n) == [i \in 1..n |-> "h" \o ToString(i)]

\* Highlight lists left by earlier statements: empty, one short of the cap
\* and at the cap, without and with the text "X".
SandboxHighlights ==
    {Filler(n) : n \in {0, MAX_HIGHLIGHTS - 1, MAX_HIGHLIGHTS}}
    \cup {Filler(n) \o <<"X">> : n \in {0, MAX_HIGHLIGHTS - 1}}

\* Citation lists left by earlier statements.
SandboxCitations ==
    {<<>>, <<[path |-> "a.py", start_line |-> 1, end_line |-> 1, signal |-> "reference",
              snippet |-> ""]>>}

\* Helper calls with arguments of every shape.
SandboxStmts ==
    [op : {"append_highlight"}, arg : HighlightTexts]
    \cup [op : {"add_citation"}, arg : RawPaths, lines : {"any"}]
    \cup [op : {"set_final"}, arg : {"dict"}, citations : {"any"}]
    \cup [op : {"set_final"}, arg : {"dict"}, highlights : {"any"}]

SandboxInit ==
    /\ args \in [max_steps : {1}, max_depth : {1}, timeout_seconds : {1},
                 root_command_json : {"[cmd]"}, subcall_command_json : {""},
                 context_file_list : ContextFileLists,
                 require_citations : {"true", "false"}]
    /\ pc = "exec"
    /\ max_steps = 1
    /\ max_depth = 1
    /\ timeout_seconds = 1
    /\ max_subcalls = 2
    /\ step_count = 1
    /\ subcall_count = 0
    /\ history = <<>>
    /\ elapsed = 0
    /\ code \in {frag \in SeqsUpTo(SandboxStmts, MaxHelperCalls) : ValidateAst(frag)}
    /\ \/ /\ highlights \in SandboxHighlights
          /\ citations = <<>>
          /\ \A i \in 1..Len(code) :
                \/ code[i].op = "append_highlight"
                \/ "highlights" \in DOMAIN code[i]
       \/ /\ highlights = <<>>
          /\ citations \in SandboxCitations
    /\ final_value = None
    /\ final_citations = <<>>
    /\ final_highlights = <<>>
    /\ stdout_buffer = <<>>
    /\ stdout = <<>>
    /\ exit_code = None
    /\ root_launches = 1
    /\ sub_launches = 0
    /\ raise_count = 0
    /\ emitted = MaxStmts
    /\ final_set_in_fragment = FALSE
    /\ tmp_files = {}
    /\ locals = InitialLocals
    /\ context = OriginalContext
    /\ first_stdout = <<>>
    /\ prompt_history = <<>>
    /\ ServiceIdle

SandboxNext ==
    \/ SetFinal
    \/ AppendHighlight
    \/ AddCitation
    \/ EndFragment
    \/ Assemble

SandboxSpec == SandboxInit /\ [][SandboxNext]_vars

(***************************************************************************)
(* The sandbox lists at their caps: earlier statements of the fragment     *)
(* have brought the highlight list to 79 or 80 entries and the citation    *)
(* list to none, 119 or 120 entries, and the statements still to run add   *)
(* to both lists and set the final value.                                  *)
(***************************************************************************)
\* n distinct citations of a.py: line 1, ..., line n.
CitationFiller(n) ==
    [i \in 1..n |-> [path |-> "a.py", start_line |-> i, end_line |-> i,
                     signal |-> "reference", snippet |-> ""]]

\* Citation lists left by earlier statements: empty, one short of the cap
\* and at the cap.
FullCitations == {CitationFiller(n) : n \in {0, MAX_CITATIONS - 1, MAX_CITATIONS}}

\* Highlight lists left by earlier statements: one short of the cap and at
\* the cap.
FullHighlights == {Filler(n) : n \in {MAX_HIGHLIGHTS - 1, MAX_HIGHLIGHTS}}

\* Helper calls that add to the lists: a highlight, a citation of lines 1..1
\* of a loaded and of an unknown document, and a final value with citations.
CapStmts ==
    [op : {"append_highlight"}, arg : {"X"}]
    \cup [op : {"add_citation"}, arg : {"a.py", "nope"}]
    \cup [op : {"set_final"}, arg : {"dict"}, citations : {"snippets"}]

CapInit ==
    /\ args \in [max_steps : {1}, max_depth : {1}, timeout_seconds : {1},
                 root_command_json : {"[cmd]"}, subcall_command_json : {""},
                 context_file_list : ContextFileLists,
                 require_citations : {"true", "false"}]
    /\ pc = "exec"
    /\ max_steps = 1
    /\ max_depth = 1
    /\ timeout_seconds = 1
    /\ max_subcalls = 2
    /\ step_count = 1
    /\ subcall_count = 0
    /\ history = <<>>
    /\ elapsed = 0
    /\ code \in {frag \in SeqsUpTo(CapStmts, MaxHelperCalls) : ValidateAst(frag)}
    /\ highlights \in FullHighlights
    /\ citations \in FullCitations
    /\ final_value = None
    /\ final_citations = <<>>
    /\ final_highlights = <<>>
    /\ stdout_buffer = <<>>
    /\ stdout = <<>>
    /\ exit_code = None
    /\ root_launches = 1
    /\ sub_launches = 0
    /\ raise_count = 0
    /\ emitted = MaxStmts
    /\ final_set_in_fragment = FALSE
    /\ tmp_files = {}
    /\ locals = InitialLocals
    /\ context = OriginalContext
    /\ first_stdout = <<>>
    /\ prompt_history = <<>>
    /\ ServiceIdle

CapNext ==
    \/ SetFinal
    \/ AppendHighlight
    \/ AddCitation
    \/ EndFragment
    \/ Assemble

CapSpec == CapInit /\ [][CapNext]_vars

(***************************************************************************)
(* read_file: the fragment is x = read_file(path, start_line, end_line)    *)
(* with line arguments of every shape, run before, at and after the        *)
(* deadline.                                                               *)
(***************************************************************************)
\* Document.lines of a.py.
DocLines == <<"class A:", "x = 1", "y = 2">>

\* "\n".join(lines)
RECURSIVE JoinLines(_)
JoinLines(lines) ==
    IF lines = <<>> THEN ""
    ELSE IF Len(lines) = 1 THEN lines[1]
    ELSE lines[1] \o "\n" \o JoinLines(Tail(lines))

\* list[lo:hi] for 0 <= lo: the items at the 0-based positions lo..hi-1
\* that exist.
PySlice(list, lo, hi) ==
    IF hi <= lo \/ lo >= Len(list) THEN <<>>
    ELSE SubSeq(list, lo + 1, Min(hi, Len(list)))

\* Line arguments: an integer, None, or a value int() raises on.
ReadLineArgs ==
    [t : {"int"}, v : (-1)..(MaxLine + 2)] \cup [t : {"none", "str"}, v : {0}]

\* Mutant of read_file: the slice ends one line early.
read_file_EndExclusive(path, start_line, end_line) ==
    IF path \notin Docs THEN [raised |-> TRUE, value |-> ""]
    ELSE LET line_count == Len(DocLines)
             start == IF start_line.t = "int" THEN Max(1, start_line.v) ELSE 1
             end == IF end_line.t = "int" THEN Max(start, end_line.v) ELSE line_count
         IN  [raised |-> FALSE,
              value |-> IF start > line_count THEN ""
                        ELSE JoinLines(PySlice(DocLines, start - 1, end - 1))]

\* read_file(path, start_line, end_line) after the deadline check: raised
\* is TRUE when SandboxViolation is raised, else value is the text returned.
read_file(path, start_line, end_line) ==
    IF path \notin Docs THEN [raised |-> TRUE, value |-> ""]
    ELSE LET line_count == Len(DocLines)
             \* int(start_line); the except clause gives 1
             start == IF start_line.t = "int" THEN Max(1, start_line.v) ELSE 1
             \* None and the except clause give doc.line_count
             end == IF end_line.t = "int" THEN Max(start, end_line.v) ELSE line_count
         IN  [raised |-> FALSE,
              value |-> IF start > line_count THEN ""
                        ELSE JoinLines(PySlice(DocLines, start - 1, end))]

\* A fragment runs x = read_file(path, start_line, end_line).
ReadFile ==
    /\ Running("read_file")
    /\ IF TimeoutExceeded(elapsed)
       THEN /\ Raise("LimitError", "timeout exceeded", step_count, subcall_count, history)
            /\ UNCHANGED <<code, locals>>
       ELSE LET result == read_file(Head(code).arg, Head(code).start_line, Head(code).end_line)
            IN  IF result.raised
                THEN /\ Raise("SandboxViolation", "unknown path in read_file", step_count, subcall_count, history)
                     /\ UNCHANGED <<code, locals>>
                ELSE /\ locals' = [locals EXCEPT !["x"] = result.value]
                     /\ NextStmt
    /\ UNCHANGED <<cfgVars, step_count, subcall_count, history, elapsed>>
    /\ UNCHANGED <<sandboxVars, launchVars, stdout_buffer, emitted, final_set_in_fragment>>
    /\ UNCHANGED <<tmp_files, context, first_stdout, prompt_history, svcVars>>

\* x = read_file(...) with a loaded and an unknown path.
ReadStmts ==
    [op : {"read_file"}, arg : Paths, start_line : ReadLineArgs, end_line : ReadLineArgs]

ReadInit ==
    /\ args \in [max_steps : {1}, max_depth : {1}, timeout_seconds : {1},
                 root_command_json : {"[cmd]"}, subcall_command_json : {""},
                 context_file_list : {"signals"},
                 require_citations : {"false"}]
    /\ pc = "exec"
    /\ max_steps = 1
    /\ max_depth = 1
    /\ timeout_seconds = 1
    /\ max_subcalls = 2
    /\ step_count = 1
    /\ subcall_count = 0
    /\ history = <<>>
    /\ elapsed \in {0, timeout_seconds * TicksPerSecond, timeout_seconds * TicksPerSecond + 1}
    /\ \E st \in ReadStmts :
          code \in {frag \in {<<st>>, <<st, [op |-> "set_final", arg |-> "dict"]>>} :
                       ValidateAst(frag)}
    /\ highlights = <<>>
    /\ citations = <<>>
    /\ final_value = None
    /\ final_citations = <<>>
    /\ final_highlights = <<>>
    /\ stdout_buffer = <<>>
    /\ stdout = <<>>
    /\ exit_code = None
    /\ root_launches = 1
    /\ sub_launches = 0
    /\ raise_count = 0
    /\ emitted = MaxStmts
    /\ final_set_in_fragment = FALSE
    /\ tmp_files = {}
    /\ locals = InitialLocals
    /\ context = OriginalContext
    /\ first_stdout = <<>>
    /\ prompt_history = <<>>
    /\ ServiceIdle

ReadNext ==
    \/ ReadFile
    \/ SetFinal
    \/ EndFragment
    \/ Assemble

ReadSpec == ReadInit /\ [][ReadNext]_vars

(***************************************************************************)
(* The ledger part-way through a run: the configuration is done, earlier   *)
(* steps and earlier statements of the current fragment have used some of  *)
(* the step, subcall and time budgets, and the root CLI has returned the   *)
(* fragment whose remaining statements are in code.  The run goes on from  *)
(* there with one more statement of the root model per later step.         *)
(***************************************************************************)
\* The statements still to run: subcalls, helper calls and loops that burn time.
LedgerStmts ==
    [op : {"sub_rlm"}, arg : {1}]
    \cup [op : {"while"}, arg : {1}]
    \cup [op : {"set_final"}, arg : {"dict"}]
    \cup [op : {"append_highlight"}, arg : {"X"}]
    \cup [op : {"add_citation"}, arg : {"a.py"}]

\* The trace after subs subcalls, all made in step 1, and steps - 1 completed steps.
PriorHistory(steps, subs) ==
    [i \in 1..subs |-> [step |-> 1, type |-> "subcall", returncode |-> 0]]
    \o [i \in 1..(steps - 1) |-> [step |-> i, type |-> "root", returncode |-> 0]]

LedgerInit ==
    /\ args \in [max_steps : 1..MaxStepsArg,
                 max_depth : 1..MaxDepthArg,
                 timeout_seconds : 1..MaxTimeoutArg,
                 root_command_json : {"[cmd]"}, subcall_command_json : {""},
                 context_file_list : {"signals"},
                 require_citations : {"true"}]
    /\ pc = "exec"
    /\ max_steps = Max(1, args.max_steps)
    /\ max_depth = Max(1, args.max_depth)
    /\ timeout_seconds = Max(1, args.timeout_seconds)
    /\ max_subcalls = Max(1, args.max_steps * 2)
    /\ step_count \in {1, max_steps}
    /\ subcall_count \in {0, max_subcalls - 1, max_subcalls}
    /\ history = PriorHistory(step_count, subcall_count)
    \* the root child was launched before the deadline and ran for less than
    \* the time it was given, which is at least one second
    /\ elapsed \in {0, timeout_seconds * TicksPerSecond - 1, timeout_seconds * TicksPerSecond,
                    timeout_seconds * TicksPerSecond + TicksPerSecond - 1}
    /\ highlights = <<>>
    /\ citations = <<>>
    /\ final_value = None
    /\ final_citations = <<>>
    /\ final_highlights = <<>>
    /\ code \in {frag \in SeqsUpTo(LedgerStmts, MaxHelperCalls) : ValidateAst(frag)}
    /\ stdout_buffer = <<>>
    /\ stdout = <<>>
    /\ exit_code = None
    /\ root_launches = step_count
    /\ sub_launches = subcall_count
    /\ raise_count = 0
    /\ emitted = MaxStmts - 1
    /\ final_set_in_fragment = FALSE
    /\ tmp_files = {}
    /\ locals = InitialLocals
    /\ context = OriginalContext
    /\ first_stdout = <<>>
    /\ prompt_history = IF step_count = 1 THEN <<>> ELSE summarize_history(history)
    /\ ServiceIdle

LedgerNext ==
    \/ TickStep
    \/ InvokeRoot
    \/ SetFinal
    \/ AppendHighlight
    \/ AddCitation
    \/ PrintStmt
    \/ SubRlm
    \/ ExecPlain
    \/ Spin
    \/ EndFragment
    \/ Assemble

LedgerSpec == LedgerInit /\ [][LedgerNext]_vars

(***************************************************************************)
(* The namespace of the fragments: a run of two steps, configured, whose   *)
(* root CLI answers with fragments that bind names, define and call        *)
(* functions, store into CONTEXT and use attributes.                       *)
(***************************************************************************)
NamespaceInit ==
    /\ args \in [max_steps : {2}, max_depth : {1}, timeout_seconds : {MaxTimeoutArg},
                 root_command_json : {"[cmd]"}, subcall_command_json : {""},
                 context_file_list : {"signals"},
                 require_citations : {"true"}]
    /\ pc = "loop"
    /\ max_steps = Max(1, args.max_steps)
    /\ max_depth = Max(1, args.max_depth)
    /\ timeout_seconds = Max(1, args.timeout_seconds)
    /\ max_subcalls = Max(1, args.max_steps * 2)
    /\ step_count = 0
    /\ subcall_count = 0
    /\ history = <<>>
    /\ elapsed = 0
    /\ highlights = <<>>
    /\ citations = <<>>
    /\ final_value = None
    /\ final_citations = <<>>
    /\ final_highlights = <<>>
    /\ code = <<>>
    /\ stdout_buffer = <<>>
    /\ stdout = <<>>
    /\ exit_code = None
    /\ root_launches = 0
    /\ sub_launches = 0
    /\ raise_count = 0
    /\ emitted = 0
    /\ final_set_in_fragment = FALSE
    /\ tmp_files = {}
    /\ locals = InitialLocals
    /\ context = OriginalContext
    /\ first_stdout = <<>>
    /\ prompt_history = <<>>
    /\ ServiceIdle

\* The root CLI answers with a fragment of the statements of RichStmts.
InvokeRootRich ==
    /\ pc = "invoke"
    /\ InvokeRootWith(ChildOutcomes(RemainingTimeout(elapsed)),
                      SeqsUpTo(RichStmts, MaxStmts - emitted) \cup {<<>>})

NamespaceNext ==
    \/ TickStep
    \/ InvokeRootRich
    \/ Assign
    \/ StoreContext
    \/ FunctionDef
    \/ CallName
    \/ ExecPlain
    \/ SetFinal
    \/ AppendHighlight
    \/ AddCitation
    \/ EndFragment
    \/ Assemble

NamespaceSpec == NamespaceInit /\ [][NamespaceNext]_vars

(***************************************************************************)
(* Two runs of the worker, one after the other, on the same documents and  *)
(* with the same options, against a root CLI that prints the same text     *)
(* whatever it is asked.  first_stdout keeps what the first run printed.   *)
(***************************************************************************)
TwinInit ==
    /\ args \in [max_steps : 1..MaxStepsArg,
                 max_depth : 1..MaxDepthArg,
                 timeout_seconds : 1..MaxTimeoutArg,
                 root_command_json : {"[cmd]"}, subcall_command_json : {""},
                 context_file_list : ContextFileLists,
                 require_citations : {"true", "false"}]
    /\ pc = "loop"
    /\ max_steps = Max(1, args.max_steps)
    /\ max_depth = Max(1, args.max_depth)
    /\ timeout_seconds = Max(1, args.timeout_seconds)
    /\ max_subcalls = Max(1, args.max_steps * 2)
    /\ step_count = 0
    /\ subcall_count = 0
    /\ history = <<>>
    /\ elapsed = 0
    /\ highlights = <<>>
    /\ citations = <<>>
    /\ final_value = None
    /\ final_citations = <<>>
    /\ final_highlights = <<>>
    /\ code = <<>>
    /\ stdout_buffer = <<>>
    /\ stdout = <<>>
    /\ exit_code = None
    /\ root_launches = 0
    /\ sub_launches = 0
    /\ raise_count = 0
    /\ emitted = 0
    /\ final_set_in_fragment = FALSE
    /\ tmp_files = {}
    /\ locals = InitialLocals
    /\ context = OriginalContext
    /\ first_stdout = <<>>
    /\ prompt_history = <<>>
    /\ ServiceIdle

\* What the mocked root CLI prints, whatever the prompt:
\* print("out") and set_final({...}).
MockResponse == <<[op |-> "print", arg |-> "out"], [op |-> "set_final", arg |-> "dict"]>>

\* The mocked root CLI exits with code 0; the time it takes is not fixed.
MockOutcomes(timeout) == {o \in ChildOutcomes(timeout) : o.kind = "exit" /\ o.rc = 0}

\* The root step of a run against the mocked CLI.
InvokeMock ==
    /\ pc = "invoke"
    /\ InvokeRootWith(MockOutcomes(RemainingTimeout(elapsed)), {MockResponse})

\* The worker is started a second time with the same options: a new process,
\* whose state and sandbox are built anew.
Rerun ==
    /\ pc = "exited"
    /\ first_stdout = <<>>
    /\ prompt_history' = <<>>
    /\ UNCHANGED svcVars
    /\ first_stdout' = stdout
    /\ pc' = "loop"
    /\ step_count' = 0
    /\ subcall_count' = 0
    /\ history' = <<>>
    /\ elapsed' = 0
    /\ highlights' = <<>>
    /\ citations' = <<>>
    /\ final_value' = None
    /\ final_citations' = <<>>
    /\ final_highlights' = <<>>
    /\ code' = <<>>
    /\ stdout_buffer' = <<>>
    /\ stdout' = <<>>
    /\ exit_code' = None
    /\ root_launches' = 0
    /\ sub_launches' = 0
    /\ raise_count' = 0
    /\ emitted' = 0
    /\ final_set_in_fragment' = FALSE
    /\ tmp_files' = {}
    /\ locals' = InitialLocals
    /\ context' = OriginalContext
    /\ UNCHANGED cfgVars

TwinNext ==
    \/ TickStep
    \/ InvokeMock
    \/ PrintStmt
    \/ SetFinal
    \/ EndFragment
    \/ Assemble
    \/ Rerun

TwinSpec == TwinInit /\ [][TwinNext]_vars

(***************************************************************************)
(* A long run: max_steps is LongRunSteps, every earlier step made two      *)
(* subcalls and set no final value, and the current step has made up to    *)
(* two.  The history is a few rows short of MAX_HISTORY_ITEMS, or of the   *)
(* cap of 200 rows, or at it.                                              *)
(***************************************************************************)
LongRunSteps == 100

\* The steps the run may be at: the third, and the one whose rows fill the history.
LongRunAt == {3, (HISTORY_CAP - 2) \div 3 + 1}

\* The history when step k has made j subcalls.
LongHistory(k, j) ==
    [i \in 1..(3 * (k - 1)) |->
        [step |-> (i - 1) \div 3 + 1,
         type |-> IF (i - 1) % 3 = 2 THEN "root" ELSE "subcall",
         returncode |-> 0]]
    \o [i \in 1..j |-> [step |-> k, type |-> "subcall", returncode |-> 0]]

\* The statements of the fragments of a long run.
HistoryStmts ==
    {[op |-> "sub_rlm", arg |-> 1], [op |-> "pass", arg |-> None],
     [op |-> "set_final", arg |-> "dict"]}

HistoryInit ==
    /\ args \in [max_steps : {LongRunSteps}, max_depth : {1},
                 timeout_seconds : {MaxTimeoutArg},
                 root_command_json : {"[cmd]"}, subcall_command_json : {""},
                 context_file_list : {"signals"},
                 require_citations : {"true"}]
    /\ pc = "exec"
    /\ max_steps = Max(1, args.max_steps)
    /\ max_depth = Max(1, args.max_depth)
    /\ timeout_seconds = Max(1, args.timeout_seconds)
    /\ max_subcalls = Max(1, args.max_steps * 2)
    /\ step_count \in LongRunAt
    /\ \E j \in 0..2 :
          /\ subcall_count = 2 * (step_count - 1) + j
          /\ history = LongHistory(step_count, j)
    /\ prompt_history = summarize_history(LongHistory(step_count, 0))
    /\ ServiceIdle
    /\ elapsed = 0
    /\ highlights = <<>>
    /\ citations = <<>>
    /\ final_value = None
    /\ final_citations = <<>>
    /\ final_highlights = <<>>
    /\ code \in SeqsUpTo(HistoryStmts, 2)
    /\ stdout_buffer = <<>>
    /\ stdout = <<>>
    /\ exit_code = None
    /\ root_launches = step_count
    /\ sub_launches = subcall_count
    /\ raise_count = 0
    /\ emitted = Len(code)
    /\ final_set_in_fragment = FALSE
    /\ tmp_files = {}
    /\ locals = InitialLocals
    /\ context = OriginalContext
    /\ first_stdout = <<>>

\* The root CLI answers with a fragment of the statements of HistoryStmts.
InvokeRootLong ==
    /\ pc = "invoke"
    /\ InvokeRootWith(ChildOutcomes(RemainingTimeout(elapsed)),
                      SeqsUpTo(HistoryStmts, MaxStmts - emitted) \cup {<<>>})

HistoryNext ==
    \/ TickStep
    \/ InvokeRootLong
    \/ SubRlm
    \/ ExecPlain
    \/ SetFinal
    \/ EndFragment
    \/ Assemble

HistorySpec == HistoryInit /\ [][HistoryNext]_vars

(***************************************************************************)
(* The ops-manager service: POST /ops/control.  ThreadingHTTPServer runs   *)
(* do_POST of each request on a thread of its own and the handler takes no *)
(* lock, so the calls interleave at the points where a call reads the      *)
(* idempotency file of the loop, runs the control script, and replaces the *)
(* file.  A request is authorized, addressed to /ops/control and carries a *)
(* JSON object; the control script prints no JSON line and nothing on its  *)
(* standard error, so the response has no result and no stderr key.        *)
(***************************************************************************)
\* The intents a client sends; do_POST accepts cancel, approve and reject.
Intents == {"cancel", "bogus"}

ValidIntents == {"cancel", "approve", "reject"}

\* _error(400, "invalid_request", ...).
InvalidRequest == [status |-> 400, body |-> [ok |-> FALSE, error |-> "invalid_request"]]

\* The response built from the exit code of the control script.
ControlResponse(returncode) ==
    [ok |-> returncode = 0, exitCode |-> returncode, replayed |-> FALSE]

\* The HTTP status sent with the response of a control run.
StatusOf(returncode) ==
    IF returncode = 0 THEN 200 ELSE IF returncode = 2 THEN 409 ELSE 500

\* do_POST up to the replay test: the request is parsed, refused with 400
\* when it names no loop or no valid intent, the idempotency file of the loop
\* is read into the handler's idem_map, and a key the map holds is answered
\* from the map with replayed set.
Receive(t) ==
    /\ handlers[t].pc = "idle"
    /\ requests < MaxRequests
    /\ requests' = requests + 1
    /\ \E loop_id \in Loops \cup {""}, intent \in Intents, idempotency_key \in Keys \cup {""} :
        IF loop_id = "" \/ intent \notin ValidIntents
        THEN /\ handlers' = [handlers EXCEPT ![t] =
                    [IdleHandler EXCEPT !.reply = InvalidRequest]]
             /\ UNCHANGED completed
        ELSE LET idem_map == idem_files[loop_id]
                 late == <<loop_id, idempotency_key>> \in completed
             IN  IF idempotency_key # "" /\ idem_map[idempotency_key] # Absent
                 THEN /\ handlers' = [handlers EXCEPT ![t] =
                             [pc |-> "idle", loop |-> loop_id, key |-> idempotency_key,
                              idem_map |-> idem_map, response |-> Absent,
                              reply |-> [status |-> 200,
                                         body |-> [idem_map[idempotency_key]
                                                       EXCEPT !.replayed = TRUE]],
                              late |-> late]]
                      /\ completed' = completed \cup {<<loop_id, idempotency_key>>}
                 ELSE /\ handlers' = [handlers EXCEPT ![t] =
                             [pc |-> "run", loop |-> loop_id, key |-> idempotency_key,
                              idem_map |-> idem_map, response |-> Absent,
                              reply |-> Absent, late |-> late]]
                      /\ UNCHANGED completed
    /\ UNCHANGED <<idem_files, control_runs, workerVars>>

\* run_command(command): the control script runs for the loop and ends with
\* an exit code, from which the response is built.
RunControl(t) ==
    /\ handlers[t].pc = "run"
    /\ \E returncode \in ExitCodes :
        handlers' = [handlers EXCEPT ![t].pc = "store",
                                     ![t].response = ControlResponse(returncode)]
    /\ control_runs' = [control_runs EXCEPT ![handlers[t].loop][handlers[t].key] = @ + 1]
    /\ UNCHANGED <<idem_files, completed, requests, workerVars>>

\* The end of do_POST: with a key, the response is put into the handler's
\* idem_map and json_dump_atomic replaces the idempotency file of the loop by
\* that map; the response is then sent.
StoreAndReply(t) ==
    /\ handlers[t].pc = "store"
    /\ LET h == handlers[t]
           new_map == [h.idem_map EXCEPT ![h.key] = h.response]
       IN  /\ IF h.key # ""
              THEN /\ idem_files' = [idem_files EXCEPT ![h.loop] = new_map]
                   /\ completed' = completed \cup {<<h.loop, h.key>>}
                   /\ handlers' = [handlers EXCEPT ![t].pc = "idle",
                                                ![t].idem_map = new_map,
                                                ![t].reply = [status |-> StatusOf(h.response.exitCode),
                                                              body |-> h.response]]
              ELSE /\ UNCHANGED <<idem_files, completed>>
                   /\ handlers' = [handlers EXCEPT ![t].pc = "idle",
                                                ![t].reply = [status |-> StatusOf(h.response.exitCode),
                                                              body |-> h.response]]
    /\ UNCHANGED <<control_runs, requests, workerVars>>

\* The service starts with no idempotency file; the worker is not part of it
\* and stays as constructed.
ServiceInit ==
    /\ args = [max_steps |-> 1, max_depth |-> 1, timeout_seconds |-> 1,
               root_command_json |-> "[cmd]", subcall_command_json |-> "",
               context_file_list |-> "signals", require_citations |-> "true"]
    /\ pc = "config"
    /\ max_steps = 0
    /\ max_depth = 0
    /\ timeout_seconds = 0
    /\ max_subcalls = 0
    /\ step_count = 0
    /\ subcall_count = 0
    /\ history = <<>>
    /\ elapsed = 0
    /\ highlights = <<>>
    /\ citations = <<>>
    /\ final_value = None
    /\ final_citations = <<>>
    /\ final_highlights = <<>>
    /\ code = <<>>
    /\ stdout_buffer = <<>>
    /\ stdout = <<>>
    /\ exit_code = None
    /\ root_launches = 0
    /\ sub_launches = 0
    /\ raise_count = 0
    /\ emitted = 0
    /\ final_set_in_fragment = FALSE
    /\ tmp_files = {}
    /\ locals = InitialLocals
    /\ context = OriginalContext
    /\ first_stdout = <<>>
    /\ prompt_history = <<>>
    /\ ServiceIdle

ServiceNext == \E t \in Threads : Receive(t) \/ RunControl(t) \/ StoreAndReply(t)

ServiceSpec == ServiceInit /\ [][ServiceNext]_vars

(***************************************************************************)
(* Properties.                                                             *)
(***************************************************************************)
\* The records on standard output that carry a stats snapshot.
StatsRecords == {i \in 1..Len(stdout) : "stats" \in DOMAIN stdout[i]}

\* error_code of a record ("none" for a success record, which has no such key).
ErrorCode(r) == IF "error_code" \in DOMAIN r THEN r.error_code ELSE "none"

\* error of a record ("" for a success record).
ErrorMsg(r) == IF "error" \in DOMAIN r THEN r.error ELSE ""

\* The run has ended and printed record r.
Exited == pc = "exited" /\ Len(stdout) >= 1

\* Fragment frag holds a statement for which _validate_ast raises SandboxViolation.
Rejected(frag) == \E i \in 1..Len(frag) : ~StmtAllowed(frag[i], frag)

\* C1: in every reachable state step_count <= max_steps, and the
\* stats.step_count of every record written never exceeds the enforced max_steps.
C1_StepCountWithinMaxSteps ==
    /\ step_count <= max_steps
    /\ \A i \in StatsRecords : stdout[i].stats.step_count <= max_steps

\* C1 witness: a run of at least two iterations ended with a record whose
\* stats.step_count equals max_steps.
C1_Witness ==
    /\ Exited
    /\ max_steps >= 2
    /\ StatsRecords # {}
    /\ stdout[1].stats.step_count = max_steps

\* C2 (as claimed): subcall_count <= max_subcalls always, and the
\* stats.subcall_count of every record written never exceeds max_subcalls.
C2_SubcallCountWithinMaxSubcalls ==
    /\ pc # "config" => subcall_count <= max_subcalls
    /\ \A i \in StatsRecords : stdout[i].stats.subcall_count <= max_subcalls

\* C3 (as claimed): once the final slot holds a non-null value, no step makes
\* it null again.
C3_FinalNeverCleared == [][final_value # None => final_value' # None]_vars

\* C4 (as claimed): once a fragment that called set_final with a non-null
\* value has completed, the root CLI is not invoked again and the run ends
\* with a success record and exit code 0.
C4_ExitAfterFinalSet ==
    (final_set_in_fragment /\ code = <<>> /\ pc # "exec") =>
        /\ pc \in {"loop", "exited"}
        /\ pc = "loop" => final_value # None
        /\ pc = "exited" => (Len(stdout) = 1 /\ stdout[1].ok /\ exit_code = 0)

\* C5: the step in which the root CLI returns a fragment the validator
\* rejects ends the run with sandbox_violation and leaves highlights,
\* citations, the final slot, subcall_count and history as they were, and no
\* step taken while such a fragment is the current one changes them: nothing
\* of the fragment executes.
C5_RejectedFragmentChangesNothing ==
    /\ [][(pc = "invoke" /\ Rejected(code')) =>
            /\ UNCHANGED <<highlights, citations, final_value, subcall_count, history>>
            /\ pc' = "exited"
            /\ ErrorCode(stdout'[1]) = "sandbox_violation"]_vars
    /\ [][Rejected(code) =>
            UNCHANGED <<highlights, citations, final_value, subcall_count, history>>]_vars

\* C5 witness: a second-step fragment whose first statement is allowed and
\* whose second is not was rejected, with highlights and history already non-empty.
C5_Witness ==
    /\ Exited
    /\ ErrorCode(stdout[1]) = "sandbox_violation"
    /\ Len(code) = 2
    /\ code[1].op = "append_highlight"
    /\ ~StmtAllowed(code[2], code)
    /\ highlights # <<>>
    /\ history # <<>>

\* C6: the root CLI is never invoked more than max_steps times and the loop
\* never comes back to its head with final unset once step_count has reached
\* max_steps; when the fragment of step max_steps completes with final unset
\* the run ends at once with limit_exceeded, stats.step_count = max_steps and
\* exit code 2, after exactly max_steps root invocations; and no run ends for
\* that reason earlier.
C6_LimitExceededAfterMaxSteps ==
    /\ [](/\ root_launches <= max_steps
          /\ (pc = "loop" /\ final_value = None) => step_count < max_steps
          /\ (Exited /\ ErrorMsg(stdout[1]) = "final value was not set before max_steps") =>
                /\ root_launches = max_steps
                /\ stdout[1].stats.step_count = max_steps)
    /\ [][(pc = "exec" /\ code = <<>> /\ final_value = None /\ step_count >= max_steps) =>
            /\ pc' = "exited"
            /\ Len(stdout') = 1
            /\ ErrorMsg(stdout'[1]) = "final value was not set before max_steps"
            /\ ErrorCode(stdout'[1]) = "limit_exceeded"
            /\ stdout'[1].stats.step_count = max_steps
            /\ root_launches' = max_steps
            /\ exit_code' = 2]_vars

\* C6 witness: a run with max_steps >= 2 ended because final was never set.
C6_Witness ==
    /\ Exited
    /\ max_steps >= 2
    /\ ErrorMsg(stdout[1]) = "final value was not set before max_steps"
    /\ root_launches = max_steps

\* C7: once an exception has been raised the run has ended with exactly one
\* failure record, and no later step launches a root or subcall process,
\* executes a statement or changes the sandbox or the ledger.
C7_ErrorsAreTerminal ==
    /\ [](raise_count >= 1 =>
            /\ raise_count = 1
            /\ pc = "exited"
            /\ Len(stdout) = 1
            /\ ~stdout[1].ok
            /\ exit_code \in {1, 2})
    /\ [][raise_count >= 1 =>
            UNCHANGED <<root_launches, sub_launches, code, highlights, citations,
                        final_value, step_count, subcall_count, history>>]_vars

\* C7 witness: a helper called from a fragment raised with statements of the
\* fragment still to run, after a subcall process had been launched.
C7_Witness ==
    /\ Exited
    /\ raise_count = 1
    /\ Len(code) = 2
    /\ Head(code).op = "add_citation"
    /\ ~Rejected(code)
    /\ ErrorCode(stdout[1]) = "sandbox_violation"
    /\ sub_launches >= 1

\* C8: exit code 0 iff ok=true; 1 iff error_code is sandbox_violation,
\* model_invocation_failed or worker_failure; 2 iff error_code is
\* limit_exceeded, invalid_config or missing_root_command.
C8_ExitCodeByOutcome ==
    pc = "exited" =>
        /\ Len(stdout) >= 1
        /\ exit_code \in {0, 1, 2}
        /\ LET r == stdout[Len(stdout)]
           IN  /\ exit_code = 0 <=> r.ok
               /\ exit_code = 1 <=>
                    ErrorCode(r) \in {"sandbox_violation", "model_invocation_failed", "worker_failure"}
               /\ exit_code = 2 <=>
                    ErrorCode(r) \in {"limit_exceeded", "invalid_config", "missing_root_command"}

\* C8 witness: a run rejected by the validator left with exit code 1.
C8_Witness ==
    /\ Exited
    /\ exit_code = 1
    /\ ErrorCode(stdout[1]) = "sandbox_violation"
    /\ Rejected(code)

\* C9: standard output holds no record while the run is going and exactly one
\* result record once it has ended; nothing a fragment prints is on it.
C9_ExactlyOneRecord ==
    /\ pc # "exited" => stdout = <<>>
    /\ pc = "exited" => Len(stdout) = 1
    /\ \A i \in 1..Len(stdout) : "ok" \in DOMAIN stdout[i]

\* C9 witness: a run whose fragment printed and then set final ended with
\* its one success record.
C9_Witness ==
    /\ Exited
    /\ stdout[1].ok
    /\ stdout_buffer # <<>>

\* C10: a sub_rlm call with depth < 1 or depth > max_depth launches no child
\* process and ends the run with limit_exceeded and exit code 2; a call with
\* 1 <= depth <= max_depth is not rejected with a depth error.
C10_DepthCheck ==
    [][Running("sub_rlm") =>
          LET d == Head(code).arg
          IN  /\ (d < 1 \/ d > max_depth) =>
                    /\ sub_launches' = sub_launches
                    /\ pc' = "exited"
                    /\ Len(stdout') = 1
                    /\ ErrorCode(stdout'[1]) = "limit_exceeded"
                    /\ exit_code' = 2
              /\ (1 <= d /\ d <= max_depth) =>
                    (pc' = "exited" =>
                        ErrorMsg(stdout'[1]) \notin
                            {"subcall depth must be >= 1", "subcall depth exceeded"})]_vars

\* C10 witness: sub_rlm(depth = max_depth) launched its child and returned,
\* then sub_rlm(depth = max_depth + 1) ended the run with limit_exceeded.
C10_Witness ==
    /\ Exited
    /\ code = <<[op |-> "sub_rlm", arg |-> max_depth + 1]>>
    /\ sub_launches = 1
    /\ ErrorMsg(stdout[1]) = "subcall depth exceeded"
    /\ exit_code = 2

\* The trace holds a subcall row written in step k.
SubcallInStep(k) ==
    \E i \in 1..Len(history) : history[i].type = "subcall" /\ history[i].step = k

\* C11: at most max_subcalls subcall child processes are launched over a run;
\* a sub_rlm call made when max_subcalls calls have been counted launches no
\* child and ends the run with limit_exceeded, a call made before that is not
\* refused for the budget, and no step lowers subcall_count (the budget is
\* not reset between root steps).
C11_SubcallBudgetGlobal ==
    /\ [](sub_launches <= max_subcalls)
    /\ [][subcall_count' >= subcall_count]_vars
    /\ [][(Running("sub_rlm") /\ 1 <= Head(code).arg /\ Head(code).arg <= max_depth) =>
            IF subcall_count >= max_subcalls
            THEN /\ sub_launches' = sub_launches
                 /\ pc' = "exited"
                 /\ ErrorCode(stdout'[1]) = "limit_exceeded"
                 /\ ErrorMsg(stdout'[1]) = "subcall limit exceeded"
                 /\ exit_code' = 2
            ELSE pc' = "exited" => ErrorMsg(stdout'[1]) # "subcall limit exceeded"]_vars

\* C11 witness: subcalls were made in step 1 and in step 2, max_subcalls
\* children were launched in all, and the next sub_rlm call ended the run.
C11_Witness ==
    /\ Exited
    /\ ErrorMsg(stdout[1]) = "subcall limit exceeded"
    /\ sub_launches = max_subcalls
    /\ step_count = 2
    /\ SubcallInStep(1)
    /\ SubcallInStep(2)

\* C12 (as claimed): once the ledger exists, max_subcalls = 2 * max_steps
\* whatever integer the max_steps option holds.
C12_SubcallBudgetTwiceSteps ==
    (pc # "config" /\ max_steps >= 1) => max_subcalls = 2 * max_steps

\* C15 (as claimed): a call of append_highlight, add_citation, set_final or
\* sub_rlm made when the elapsed time exceeds timeout_seconds raises
\* LimitError and leaves highlights, citations and the final slot as they were.
C15_HelpersCheckTimeout ==
    [][(/\ pc = "exec"
        /\ code # <<>>
        /\ Head(code).op \in {"append_highlight", "add_citation", "set_final", "sub_rlm"}
        /\ TimeoutExceeded(elapsed)) =>
            /\ pc' = "exited"
            /\ ErrorCode(stdout'[1]) = "limit_exceeded"
            /\ UNCHANGED <<highlights, citations, final_value>>]_vars

\* C16 (as claimed): the time from started_at_monotonic never exceeds
\* timeout_seconds plus the one-second grace of a child.
C16_RunEndsByDeadlinePlusGrace ==
    pc # "config" => elapsed <= timeout_seconds * TicksPerSecond + TicksPerSecond

\* A step that called subprocess.run, for the root or the subcall CLI.
ChildLaunched ==
    root_launches' + sub_launches' > root_launches + sub_launches

\* The step is at the place where remaining_timeout() is called: before the
\* root CLI is invoked, or in sub_rlm once next_subcall has returned.
AtRemainingTimeout ==
    \/ pc = "invoke"
    \/ Running("sub_rlm") /\ NextSubcallError(Head(code).arg, elapsed) = ""

C18_FailureRecordComplete ==
    \A i \in 1..Len(stdout) :
        ("ok" \in DOMAIN stdout[i] /\ ~stdout[i].ok) =>
            /\ {"error", "error_code", "stats", "trace", "metadata"} \subseteq DOMAIN stdout[i]
            /\ stdout[i].error_code \in ErrorCodes
            /\ {"step_count", "subcall_count", "elapsed_seconds"} \subseteq DOMAIN stdout[i].stats
            /\ stdout[i].trace = LastN(history, MAX_HISTORY_ITEMS)

\* The citations of the success record written.
RecordCitations == IF Exited /\ stdout[1].ok THEN stdout[1].citations ELSE <<>>

\* C13: every citation of a success record, and every citation the sandbox
\* holds, satisfies 1 <= start_line <= end_line.
C13_CitationLinesOrdered ==
    /\ \A i \in 1..Len(RecordCitations) :
          /\ 1 <= RecordCitations[i].start_line
          /\ RecordCitations[i].start_line <= RecordCitations[i].end_line
    /\ \A i \in 1..Len(citations) :
          /\ 1 <= citations[i].start_line
          /\ citations[i].start_line <= citations[i].end_line

\* C13 witness: final.citations held an item with start_line 2 and end_line
\* -1, and the success record cites lines 2..2 for it.
C13_Witness ==
    /\ Exited
    /\ stdout[1].ok
    /\ Len(final_citations) = 1
    /\ final_citations[1].isdict
    /\ final_citations[1].start_line = IntRaw(2)
    /\ final_citations[1].end_line = IntRaw(-1)
    /\ Len(RecordCitations) = 1
    /\ RecordCitations[1].start_line = 2
    /\ RecordCitations[1].end_line = 2

\* C14 (as claimed): every citation of a success record has the path of a
\* loaded document.
C14_CitationPathsLoaded ==
    \A i \in 1..Len(RecordCitations) : RecordCitations[i].path \in Docs

\* The number of entries of list equal to x.
Count(list, x) == Cardinality({i \in 1..Len(list) : list[i] = x})

\* The highlight list holds no two equal entries.
NoDuplicates(list) ==
    \A i, j \in 1..Len(list) : list[i] = list[j] => i = j

\* C19 (as claimed): whatever the list, a call append_highlight("X") leaves
\* exactly one "X" in it, and the list never holds two equal entries.
C19_ExactlyOneAfterAppend ==
    [][(Running("append_highlight") /\ compact_text(Head(code).arg) = "X") =>
          (Count(highlights', "X") = 1 /\ NoDuplicates(highlights'))]_vars

\* C19 (amended): a call append_highlight("X") leaves exactly one "X" when
\* "X" was in the list or the list held fewer than MAX_HIGHLIGHTS entries,
\* and leaves the list as it was (without "X") when it was full; a list with
\* "X" is not changed by the call; the list never holds two equal entries
\* nor more than MAX_HIGHLIGHTS.
C19_AtMostOneAfterAppend ==
    /\ [](NoDuplicates(highlights) /\ Len(highlights) <= MAX_HIGHLIGHTS)
    /\ [][(Running("append_highlight") /\ compact_text(Head(code).arg) = "X") =>
            /\ (Count(highlights, "X") = 1 \/ Len(highlights) < MAX_HIGHLIGHTS) =>
                  Count(highlights', "X") = 1
            /\ (Count(highlights, "X") = 0 /\ Len(highlights) >= MAX_HIGHLIGHTS) =>
                  highlights' = highlights
            /\ Count(highlights, "X") = 1 => highlights' = highlights]_vars

\* C19 witness: append_highlight was called twice with texts that normalise
\* to "X" on a list one short of the cap; the list is full with one "X".
C19_Witness ==
    /\ pc = "exec"
    /\ code = <<>>
    /\ Len(highlights) = MAX_HIGHLIGHTS
    /\ Count(highlights, "X") = 1
    /\ highlights[MAX_HIGHLIGHTS] = "X"
    /\ citations = <<>>
    /\ final_value = None

\* C20 (as claimed): add_citation with a path that is not exactly a loaded
\* document's path raises SandboxViolation and leaves the citations as they
\* were; with a loaded document's path it appends one normalised citation.
C20_AddCitationRejectsUnknown ==
    [][Running("add_citation") =>
          IF Head(code).arg \in Docs
          THEN /\ pc' # "exited"
               /\ Len(citations') = Len(citations) + 1
               /\ citations'[Len(citations')].path = Head(code).arg
               /\ 1 <= citations'[Len(citations')].start_line
               /\ citations'[Len(citations')].start_line <= citations'[Len(citations')].end_line
          ELSE /\ pc' = "exited"
               /\ ErrorCode(stdout'[1]) = "sandbox_violation"
               /\ citations' = citations]_vars

\* C29 (as claimed): sub_rlm appends its trace row only when the subcall CLI
\* exited with code zero, so every subcall row of the history and of the
\* trace of a record written has returncode 0.
C29_SubcallRowsReturnZero ==
    /\ \A j \in 1..Len(history) :
          history[j].type = "subcall" => history[j].returncode = 0
    /\ \A i \in 1..Len(stdout) :
          "trace" \in DOMAIN stdout[i] =>
              \A j \in 1..Len(stdout[i].trace) :
                  stdout[i].trace[j].type = "subcall" => stdout[i].trace[j].returncode = 0

\* C21 (as claimed): the citations of a success record are the deduplicated
\* concatenation of the normalised final.citations, the sandbox citations and
\* the structural scanner's citations, in this order, capped at MAX_CITATIONS.
C21_CitationsMergedInOrder ==
    (Exited /\ stdout[1].ok) =>
        stdout[1].citations =
            dedupe_citations(NormalizeAll(final_citations) \o citations
                                 \o StructuralCitations(args.context_file_list))

\* The items of a list in order, without the empty ones and without repeats.
Distinct(list) == AppendNew(<<>>, list, FALSE)

\* C22 (as claimed): the highlights of a success record are the normalised
\* items of final.highlights, then the sandbox highlights, then the
\* structural fallback highlights, in this order, with duplicates suppressed
\* and at most MAX_HIGHLIGHTS entries.
C22_HighlightsMergedInOrder ==
    (Exited /\ stdout[1].ok) =>
        stdout[1].highlights =
            FirstN(Distinct([i \in 1..Len(final_highlights) |-> compact_text(final_highlights[i])]
                            \o highlights
                            \o FallbackHighlights(StructuralSignals(args.context_file_list),
                                                  FileCount)),
                   MAX_HIGHLIGHTS)

\* C30 (as claimed): whenever invoke_cli has returned or raised, none of the
\* temporary files it created exists.
C30_TempFilesRemoved == tmp_files = {}

\* Every identifier of statement st, in whatever position: names, attribute
\* names, keyword argument names, function names and parameter names.
Identifiers(st) ==
    NameIds(st) \cup KeywordArgs(st) \cup {a.attr : a \in Attributes(st)}
    \cup FunctionDefs(st) \cup (IF st.op = "def" THEN {st.param} ELSE {})

\* C24 (as claimed): a fragment in which an identifier beginning with "__"
\* appears in any position (variable, attribute, keyword argument, function
\* definition name, function parameter name) is rejected, so no statement
\* that exec() runs holds such an identifier.
C24_DunderIdentifiersRejected ==
    pc = "exec" =>
        \A i \in 1..Len(code) : \A id \in Identifiers(code[i]) : ~IsDunder(id)

\* The functions that statements 1..i-1 of fragment frag define.
DefinedEarlier(frag, i) == UNION {FunctionDefs(frag[j]) : j \in 1..(i - 1)}

\* C25 (as claimed): when the validator accepts a fragment, every call of a
\* plain name in it is a call of a safe builtin, of a callable helper binding
\* or of a function defined earlier in the same fragment.
C25_CallTargetsAllowed ==
    [][(pc = "invoke" /\ pc' = "exec") =>
          \A i \in 1..Len(code') :
              CallNames(code'[i]) \subseteq
                  SAFE_BUILTINS \cup (BINDINGS \ {"CONTEXT"}) \cup DefinedEarlier(code', i)]_vars

\* C26 (as claimed): no statement that exec() runs reads an attribute whose
\* name begins with "__", the attribute lookups of the replacement fields of
\* a format call included.
C26_NoDunderAttributeRead ==
    (pc = "exec" /\ code # <<>>) =>
        \A a \in AttributesRead(Head(code)) : ~IsDunder(a)

\* C27 (as claimed): the CONTEXT a fragment sees when its execution starts
\* is the CONTEXT binding, and maps the loaded document paths to their
\* original text, whatever the fragments before it did.
C27_ContextReadOnly ==
    [][(pc = "invoke" /\ pc' = "exec") =>
          (locals'["CONTEXT"] = "CONTEXT" /\ context' = OriginalContext)]_vars

\* C28: when the execution of a fragment starts, every helper name is bound
\* to its helper, whatever the fragments before it bound the name to, and
\* every other name has the value it had when the fragment before it ended.
C28_BindingsRefreshed ==
    [][(pc = "invoke" /\ pc' = "exec") =>
          /\ \A h \in BINDINGS : locals'[h] = h
          /\ \A n \in Names \ BINDINGS : locals'[n] = locals[n]]_vars

\* The second fragment starts after the first one ran set_final = 1 and then
\* x = set_final: set_final is the helper again, x is still the integer.
C28_Witness ==
    /\ pc = "exec"
    /\ step_count = 2
    /\ Len(code) > 0
    /\ locals["x"] = "int"
    /\ locals["set_final"] = "set_final"

\* C23 (as claimed): two runs on the same documents, with the same options
\* and a root CLI that prints the same text for the same prompt, print the
\* same result record, field by field.
C23_RunsPrintSameRecord ==
    (pc = "exited" /\ first_stdout # <<>>) => stdout = first_stdout

\* The step is the root invocation of the current step, and the root child
\* exited with a non-zero code, ran out of its time, or was not found.
RootChildFailed ==
    /\ pc = "invoke"
    /\ pc' = "exited"
    /\ ErrorMsg(stdout'[Len(stdout')]) \in
           {"root command failed", InvokeCliError("root", "timeout"),
            InvokeCliError("root", "notfound")}

\* C31: when the root child of step k fails, no fragment is extracted or
\* executed, highlights, citations, the final slot and history stay as they
\* were (no root row for step k), and the run ends with one record whose
\* error_code is model_invocation_failed and with exit code 1.
C31_RootFailureEndsRun ==
    [][RootChildFailed =>
          /\ UNCHANGED <<code, emitted, stdout_buffer>>
          /\ UNCHANGED <<highlights, citations, final_value, history, step_count>>
          /\ \A j \in 1..Len(history') :
                ~(history'[j].type = "root" /\ history'[j].step = step_count)
          /\ Len(stdout') = 1
          /\ ErrorCode(stdout'[1]) = "model_invocation_failed"
          /\ exit_code' = 1]_vars

\* C31 witness: the root child of the second step failed after the first
\* step had appended a highlight and its root row.
C31_Witness ==
    /\ Exited
    /\ ErrorCode(stdout[1]) = "model_invocation_failed"
    /\ ErrorMsg(stdout[1]) = "root command failed"
    /\ step_count = 2
    /\ highlights # <<>>
    /\ Len(history) = 1
    /\ history[1].type = "root"

\* The last rows of list, at most n of them, in their order.
Newest(list, n) ==
    IF Len(list) <= n THEN list ELSE [i \in 1..n |-> list[Len(list) - n + i]]

\* C32: history never holds more than 200 rows, and a step that appends a
\* row keeps the newest 200 rows in their order; the trace of every record
\* printed is the newest 8 rows of history at most, and so are the rows of
\* the history section of every root prompt.
C32_HistoryBounded ==
    /\ [](/\ Len(history) <= 200
          /\ Len(prompt_history) <= 8
          /\ \A i \in 1..Len(stdout) :
                "trace" \in DOMAIN stdout[i] => Len(stdout[i].trace) <= 8)
    /\ [][history' # history =>
            history' = Newest(Append(history, history'[Len(history')]), 200)]_vars
    /\ [][(Len(stdout') > Len(stdout) /\ "trace" \in DOMAIN stdout'[Len(stdout')]) =>
            stdout'[Len(stdout')].trace = Newest(history', 8)]_vars
    /\ [][(pc = "loop" /\ pc' = "invoke") =>
            /\ Len(prompt_history') = Len(Newest(history, 8))
            /\ \A i \in 1..Len(prompt_history') :
                  /\ prompt_history'[i].step = Newest(history, 8)[i].step
                  /\ prompt_history'[i].rc = Newest(history, 8)[i].returncode]_vars

\* C32 witness: the history was full, a subcall row and a root row were
\* appended and the two oldest rows dropped, and the success record carries
\* eight rows of trace.
C32_Witness ==
    /\ Exited
    /\ stdout[1].ok
    /\ Len(stdout[1].trace) = 8
    /\ Len(history) = 200
    /\ history[1].type = "root"
    /\ history[200].type = "root"
    /\ history[199].type = "subcall"

\* C33: the sandbox never holds more than 80 highlights or 120 citations; a
\* call of append_highlight on a list of 80 highlights, and a call of
\* add_citation with a loaded document's path on a list of 120 citations,
\* leave the list as it was and let the fragment go on.
C33_ListsCapped ==
    /\ [](Len(highlights) <= 80 /\ Len(citations) <= 120)
    /\ [][(Running("append_highlight") /\ Len(highlights) = 80) =>
            (highlights' = highlights /\ pc' = "exec" /\ code' = Tail(code))]_vars
    /\ [][(Running("add_citation") /\ Len(citations) = 120 /\ Head(code).arg \in Docs) =>
            (citations' = citations /\ pc' = "exec" /\ code' = Tail(code))]_vars

\* C33 witness: the fragment called add_citation with a loaded path on a
\* list of 119 citations and has come to its end without an error; the list
\* holds 120 citations, the last one added by the first call.
C33_Witness ==
    /\ pc = "exec"
    /\ code = <<>>
    /\ stdout = <<>>
    /\ Len(citations) = 120
    /\ citations[119].start_line = 119
    /\ citations[120].start_line = 1
    /\ Len(highlights) = 80

\* The citations merge_citations hands to dedupe_citations, in merge order:
\* the normalised final.citations and then the sandbox citations, or, when
\* there are none, the structural scanner's citations, or, when there are
\* none either and citations are required, the file references.
MergedCitations ==
    LET explicit == NormalizeAll(final_citations) \o citations
        structural == StructuralCitations(args.context_file_list)
    IN  IF explicit # <<>> THEN explicit
        ELSE IF structural # <<>> THEN structural
        ELSE IF parse_bool(args.require_citations) THEN FileReferenceCitations
        ELSE <<>>

\* The position of the first item of list equal to x.
FirstPosition(list, x) ==
    LET at == {i \in 1..Len(list) : list[i] = x}
    IN  CHOOSE i \in at : \A j \in at : i <= j

\* C34: the citations of a success record hold no two entries equal in
\* (path, start_line, end_line, signal, snippet) and at most 120 entries;
\* they are merged citations, in the order of their first occurrences in the
\* merge, none left out before the last one kept, and none left out at all
\* when fewer than 120 are kept.
C34_RecordCitationsDeduped ==
    (Exited /\ stdout[1].ok) =>
        LET kept == stdout[1].citations
            merged == MergedCitations
            keptItems == {kept[k] : k \in 1..Len(kept)}
            pos == [k \in 1..Len(kept) |->
                       IF InSeq(kept[k], merged) THEN FirstPosition(merged, kept[k]) ELSE 0]
        IN  /\ Len(kept) <= 120
            /\ Cardinality({<<kept[k].path, kept[k].start_line, kept[k].end_line,
                               kept[k].signal, kept[k].snippet>> : k \in 1..Len(kept)})
                  = Len(kept)
            /\ \A k \in 1..Len(kept) : pos[k] > 0
            /\ \A k \in 1..(Len(kept) - 1) : pos[k] < pos[k + 1]
            /\ \A i \in 1..Len(merged) :
                  (Len(kept) < 120 \/ i < pos[Len(kept)]) => merged[i] \in keptItems

\* C34 witness: the sandbox held 120 citations, the last one a repeat of the
\* first, and final.citations named lines 1..1 of a.py with a snippet; the
\* record starts with the final citation, keeps the sandbox citation of the
\* same lines without snippet once, and holds 120 entries.
C34_Witness ==
    /\ Exited
    /\ stdout[1].ok
    /\ Len(citations) = 120
    /\ citations[120] = citations[1]
    /\ Len(final_citations) = 1
    /\ final_citations[1].isdict
    /\ final_citations[1].snippet = " s "
    /\ Len(stdout[1].citations) = 120
    /\ stdout[1].citations[1].snippet = "s"
    /\ stdout[1].citations[2] = citations[1]
    /\ stdout[1].citations[120] = citations[119]

\* Lines first..last of a.py joined by newlines; the empty string when
\* there is no such line.
LinesJoined(first, last) ==
    IF first > last THEN ""
    ELSE JoinLines([i \in 1..(last - first + 1) |-> DocLines[first + i - 1]])

\* C35: a call read_file(p, start_line, end_line) that the deadline check
\* lets through returns, for the loaded document of n lines and integer
\* start_line and integer or None end_line, lines s..min(e, n) joined by
\* newlines, with s = max(1, start_line) and e = max(s, end_line) (e = n
\* for None), and the empty string when s > n; for an unknown path it
\* raises SandboxViolation whatever the line arguments are.
C35_ReadFileSlice ==
    [][(Running("read_file") /\ ~TimeoutExceeded(elapsed)) =>
          LET st == Head(code)
              n == Len(DocLines)
              s == Max(1, st.start_line.v)
              e == IF st.end_line.t = "none" THEN n ELSE Max(s, st.end_line.v)
          IN  /\ (st.arg \in Docs /\ st.start_line.t = "int" /\ st.end_line.t \in {"int", "none"}) =>
                    /\ pc' = "exec"
                    /\ stdout' = stdout
                    /\ locals'["x"] = IF s > n THEN "" ELSE LinesJoined(s, Min(e, n))
              /\ st.arg \notin Docs =>
                    /\ pc' = "exited"
                    /\ ErrorCode(stdout'[1]) = "sandbox_violation"
                    /\ ErrorMsg(stdout'[1]) = "unknown path in read_file"
                    /\ locals' = locals]_vars

\* C35 witness: x = read_file("a.py", 2, end_line) with end_line past the
\* end of the three lines, or None, has bound x to lines 2 and 3.
C35_Witness ==
    /\ pc = "exec"
    /\ code = <<>>
    /\ stdout = <<>>
    /\ locals["x"] = "x = 1\ny = 2"

\* C36: a sub_rlm call whose depth is below 1 or above max_depth leaves
\* subcall_count and history as they were; a call whose depth passes raises
\* subcall_count by one, also when the call then fails on the subcall
\* limit, on the timeout check or on the child process.
C36_DepthRejectionIsFree ==
    [][Running("sub_rlm") =>
          IF Head(code).arg < 1 \/ Head(code).arg > max_depth
          THEN /\ UNCHANGED <<subcall_count, history>>
               /\ pc' = "exited"
               /\ ErrorCode(stdout'[1]) = "limit_exceeded"
          ELSE subcall_count' = subcall_count + 1]_vars

\* The run ended in a sub_rlm call with the error message msg.
SubRlmFailed(msg) ==
    /\ Exited
    /\ code # <<>>
    /\ Head(code).op = "sub_rlm"
    /\ ErrorMsg(stdout[1]) = msg

\* C36 witness: a call of depth 1 was made with the subcall budget used up;
\* the run ended on the subcall limit with the counter one above it.
C36_Witness ==
    /\ SubRlmFailed("subcall limit exceeded")
    /\ subcall_count = max_subcalls + 1
    /\ stdout[1].stats.subcall_count = max_subcalls + 1

\* C36, the other cases: the timeout check and the child process failed
\* after the depth check, and the depth check failed after an earlier call.
C36_WitnessTimeout ==
    /\ SubRlmFailed("timeout exceeded")
    /\ subcall_count = Len(history) + 1

C36_WitnessChild ==
    /\ SubRlmFailed(InvokeCliError("subcall", "timeout"))
    /\ subcall_count = Len(history) + 1

C36_WitnessDepth ==
    /\ SubRlmFailed("subcall depth exceeded")
    /\ subcall_count = 1
    /\ Len(history) = 1

\* C37: along history the step never decreases and no row follows the root
\* row of its own step, so the subcall rows of a step precede its root row
\* and a step has one root row at most; a root row is appended only for the
\* current step, by a fragment that has run to its end with no error, and a
\* run that ends inside a fragment has no root row for that step.
C37_HistoryOrdered ==
    /\ [](\A i, j \in 1..Len(history) :
             i < j => /\ history[i].step <= history[j].step
                      /\ ~(history[i].type = "root" /\ history[i].step = history[j].step))
    /\ [][(history' # history /\ history'[Len(history')].type = "root") =>
            /\ pc = "exec"
            /\ code = <<>>
            /\ stdout = <<>>
            /\ history'[Len(history')].step = step_count]_vars
    /\ [][(history' # history /\ history'[Len(history')].type = "subcall") =>
            /\ Running("sub_rlm")
            /\ history'[Len(history')].step = step_count]_vars
    /\ []((pc = "exec" /\ code # <<>>) \/ (Exited /\ code # <<>>) =>
             \A i \in 1..Len(history) :
                ~(history[i].type = "root" /\ history[i].step = step_count))

\* C37 witness: the second step made a subcall and ran to its end; history
\* holds the root row of step 1, the subcall row of step 2 and the root row
\* of step 2, in this order.
C37_Witness ==
    /\ Len(history) = 3
    /\ history[1] = [step |-> 1, type |-> "root", returncode |-> 0]
    /\ history[2] = [step |-> 2, type |-> "subcall", returncode |-> 0]
    /\ history[3] = [step |-> 2, type |-> "root", returncode |-> 0]

\* C37, the failing fragment: the second step made a subcall and then
\* raised; history ends with the subcall row of step 2.
C37_WitnessFailed ==
    /\ Exited
    /\ code # <<>>
    /\ step_count = 2
    /\ Len(history) = 2
    /\ history[1].type = "root"
    /\ history[2] = [step |-> 2, type |-> "subcall", returncode |-> 0]

\* The messages of the errors a validated fragment raises while it runs that
\* are of none of these classes, and of the empty root response.
OtherFailures ==
    {"name is not defined", "object is not callable",
     "object does not support item assignment", "root model returned empty response"}

\* C38: a step that ends the run with one of these errors writes a single
\* record with error_code worker_failure and exit code 1, leaves highlights
\* and citations as the fragment has made them, and the record has no
\* highlights and no citations field.
C38_OtherFailuresAreWorkerFailures ==
    /\ [][(pc # "exited" /\ pc' = "exited" /\ ErrorMsg(stdout'[1]) \in OtherFailures) =>
            /\ Len(stdout') = 1
            /\ ErrorCode(stdout'[1]) = "worker_failure"
            /\ exit_code' = 1
            /\ UNCHANGED <<highlights, citations>>
            /\ "highlights" \notin DOMAIN stdout'[1]
            /\ "citations" \notin DOMAIN stdout'[1]]_vars
    /\ [][(pc = "exec" /\ pc' = "exited" /\ Len(stdout') = 1
             /\ ErrorCode(stdout'[1]) \notin {"limit_exceeded", "sandbox_violation",
                                              "model_invocation_failed"}) =>
            /\ ErrorCode(stdout'[1]) = "worker_failure"
            /\ exit_code' = 1
            /\ UNCHANGED <<highlights, citations>>]_vars

\* C38 witness: the fragment recorded a highlight and a citation and then
\* called CONTEXT, which is not callable; the run ended with worker_failure
\* and the sandbox still holds both.
C38_Witness ==
    /\ Exited
    /\ ErrorCode(stdout[1]) = "worker_failure"
    /\ ErrorMsg(stdout[1]) = "object is not callable"
    /\ exit_code = 1
    /\ highlights = <<"X">>
    /\ Len(citations) = 1
    /\ step_count = 1

\* C38, the undefined name: the fragment recorded a highlight and then
\* called g, which it defines only afterwards.
C38_WitnessUndefined ==
    /\ Exited
    /\ ErrorCode(stdout[1]) = "worker_failure"
    /\ ErrorMsg(stdout[1]) = "name is not defined"
    /\ highlights = <<"X">>

\* C38, the empty root response: the second root response was empty after
\* the first fragment had recorded a highlight.
C38_WitnessEmpty ==
    /\ Exited
    /\ ErrorCode(stdout[1]) = "worker_failure"
    /\ ErrorMsg(stdout[1]) = "root model returned empty response"
    /\ exit_code = 1
    /\ step_count = 2
    /\ highlights = <<"X">>

\* C39: for every loop and every non-empty idempotency key the control
\* script is executed at most once across all POST /ops/control requests that
\* carry the key, and a request received after a request with the same loop
\* and key was answered gets status 200 and a response with replayed = TRUE.
C39_ControlRunsOncePerKey ==
    /\ \A l \in Loops, k \in Keys : control_runs[l][k] <= 1
    /\ \A t \in Threads :
        (handlers[t].pc = "idle" /\ handlers[t].late)
            => (handlers[t].reply.status = 200 /\ handlers[t].reply.body.replayed)

\* C40: a step in which a handler stores its response under its own key
\* leaves every entry that the idempotency file of the loop holds under
\* another key in the file, unchanged.
C40_StoredEntriesKept ==
    [][\A t \in Threads :
        (handlers[t].pc = "store" /\ handlers'[t].pc = "idle")
            => \A k \in Keys \ {handlers[t].key} :
                idem_files[handlers[t].loop][k] # Absent
                    => idem_files'[handlers[t].loop][k] = idem_files[handlers[t].loop][k]]_vars

====
